---- MODULE Spec2Model ----
(***************************************************************************)
(* A model of the transcript text-extraction pipeline of ZapNote:          *)
(*   - src/src/lib/text-extraction.ts  (extractTextFromFile, the three     *)
(*     per-format extractors, isValidExtractedText),                       *)
(*   - src/src/components/meeting/FileUpload.tsx (onDrop, removeFile,      *)
(*     processFile, handleProcessFiles),                                   *)
(*   - src/supabase/functions/parse-pdf/index.ts (the heuristic cascade).  *)
(*                                                                         *)
(* A JavaScript string is a sequence of UTF-16 code units; here a string   *)
(* is a sequence of one-element TLA+ strings, each standing for one code   *)
(* unit.  A code unit outside printable ASCII is written by a name         *)
(* ("NUL", "U+FFFD", ...).                                                 *)
(***************************************************************************)
EXTENDS Integers, Sequences, FiniteSets, TLC

VARIABLES
  vText,        \* SpecValidator: the argument of isValidExtractedText
  vPc,          \* SpecValidator: "idle" before the call, "returned" after it
  vOut,         \* SpecValidator: the BOOLEAN the call returned
  files,        \* FileUpload: the selected files (useState, line 16)
  processing,   \* FileUpload: the busy flag (useState, line 17)
  dropToasts,   \* FileUpload: the toasts shown by the latest onDrop
  toasts,       \* FileUpload: the toasts shown by the current processFile
  delivered,    \* FileUpload: the onFileContent calls of the current processFile
  pc,           \* where handleProcessFiles / extractTextFromFile stands
  cur,          \* the file passed to processFile / extractTextFromFile
  result,       \* the TextExtractionResult returned by extractTextFromFile
  pageCount,    \* extractTextFromPDF: pdf.numPages
  pageNum,      \* extractTextFromPDF: the loop variable
  fullText,     \* extractTextFromPDF: the text accumulated so far
  trace,        \* history: the strategies entered and steps taken by this call
  fault,        \* history: the faults raised by underlying steps of this call
  ppPc,         \* parse-pdf: where the request handler stands
  ppReq,        \* parse-pdf: the request
  ppFullText,   \* parse-pdf: fullText, the decoded bytes
  extractedText,\* parse-pdf: extractedText
  ppRan,        \* parse-pdf history: the stages attempted, in order
  ppYield,      \* parse-pdf history: the text each stage added
  ppResp,       \* parse-pdf: the response
  workerSrc,    \* text-extraction.ts: pdfjsLib.GlobalWorkerOptions.workerSrc (line 5)
  other,        \* SpecCalls: the locals of the call that is suspended at an await
  interleaved,  \* SpecCalls history: a call was suspended in mid-flight for the other
  dashImpl,     \* Dashboard: which of the two sources of the component runs
  dashPc,       \* Dashboard: where generateMinutes stands
  transcript,   \* Dashboard: useState transcript
  loading,      \* Dashboard: useState loading
  minutes,      \* Dashboard: useState minutes
  invoked,      \* Dashboard: what supabase.functions.invoke settles with
  dashToasts,   \* Dashboard: the toasts of the current generateMinutes
  meetings,     \* Dashboard: what was inserted into the meetings table
  shownFrom,    \* Dashboard history: the outcome that minutes was last set from
  gmPc,         \* generate-minutes: where the request handler stands
  gmReq,        \* generate-minutes: the request
  gmKey,        \* generate-minutes: OPENROUTER_API_KEY is configured
  gmApi,        \* generate-minutes: how the OpenRouter call turns out
  gmResp,       \* generate-minutes: the response
  histPc,       \* History: "fetched" before calculateMemberActivity, "done" after
  meetingsData, \* History: the rows fetchMeetings passes to calculateMemberActivity
  memberActivity \* History: useState memberActivity

validatorVars == <<vText, vPc, vOut>>
uploadVars == <<files, processing, dropToasts, toasts, delivered>>
extractVars == <<pc, cur, result, pageCount, pageNum, fullText, trace, fault>>
parsePdfVars == <<ppPc, ppReq, ppFullText, extractedText, ppRan, ppYield, ppResp>>
callVars == <<workerSrc, other, interleaved>>
dashVars == <<dashImpl, dashPc, transcript, loading, minutes, invoked, dashToasts,
              meetings, shownFrom>>
gmVars == <<gmPc, gmReq, gmKey, gmApi, gmResp>>
histVars == <<histPc, meetingsData, memberActivity>>
vars == <<validatorVars, uploadVars, extractVars, parsePdfVars, callVars, dashVars, gmVars,
          histVars>>

(***************************************************************************)
(* Character classes of the regular expressions in the source.             *)
(***************************************************************************)
Lower == {"a","b","c","d","e","f","g","h","i","j","k","l","m",
          "n","o","p","q","r","s","t","u","v","w","x","y","z"}
Upper == {"A","B","C","D","E","F","G","H","I","J","K","L","M",
          "N","O","P","Q","R","S","T","U","V","W","X","Y","Z"}
Digit == {"0","1","2","3","4","5","6","7","8","9"}

\* [a-zA-Z]
IsLetter(c) == c \in Lower \cup Upper

\* \s of a JavaScript regular expression, which is also the set that
\* String.prototype.trim strips.
WhiteSpace == {" ", "\t", "\n", "\r", "\f", "VT", "NBSP", "BOM"}
IsSpace(c) == c \in WhiteSpace

\* The line terminators, which "." does not match without the s flag.
LineTerminator == {"\n", "\r", "LS", "PS"}

\* . , ! ? ; : ' " ( ) -
Punct == {".", ",", "!", "?", ";", ":", "'", "\"", "(", ")", "-"}

\* a-zA-Z0-9\s.,!?;:'"()-  : the class whose complement line 150 removes.
ReadableChar(c) == IsLetter(c) \/ c \in Digit \/ IsSpace(c) \/ c \in Punct

(***************************************************************************)
(* String helpers.                                                         *)
(***************************************************************************)
\* n copies of the code unit c.
Rep(c, n) == [i \in 1..n |-> c]

\* The least and the greatest element of a non-empty set of indices.
Least(S) == CHOOSE k \in S : \A j \in S : k <= j
Greatest(S) == CHOOSE k \in S : \A j \in S : k >= j

\* The least index of S (none if S is empty).
FirstIn(S, none) == IF S = {} THEN none ELSE Least(S)

\* Index of the first code unit of s at or after i that is not white space
\* (Len(s) + 1 if none).
FirstNonSpace(s, i) == FirstIn({k \in i..Len(s) : ~IsSpace(s[k])}, Len(s) + 1)

\* Index of the last code unit of s at or before i that is not white space
\* (0 if none).
LastNonSpace(s, i) ==
  LET S == {k \in 1..i : ~IsSpace(s[k])}
  IN  IF S = {} THEN 0 ELSE Greatest(S)

\* String.prototype.trim: white space removed from both ends.
Trim(s) == SubSeq(s, FirstNonSpace(s, 1), LastNonSpace(s, Len(s)))

(***************************************************************************)
(* The Validator: isValidExtractedText (text-extraction.ts 146-155).       *)
(* readableChars / totalChars > 0.7 is a comparison of doubles; for        *)
(* lengths below 2^49 the correctly rounded quotient exceeds the double    *)
(* 0.7 exactly when 10 * readableChars > 7 * totalChars.                   *)
(***************************************************************************)
\* A mutant: the line-147 guard is missing.
isValidExtractedTextNoGuard(text) ==
  LET readableChars == Len(SelectSeq(text, ReadableChar))
      totalChars == Len(text)
  IN  totalChars > 0 /\ 10 * readableChars > 7 * totalChars /\ Len(text) > 10

\* A mutant: >= instead of > in both comparisons of line 154.
isValidExtractedTextGe(text) ==
  IF Len(text) = 0 \/ Len(Trim(text)) = 0 THEN FALSE
  ELSE LET readableChars == Len(SelectSeq(text, ReadableChar))
           totalChars == Len(text)
       IN  10 * readableChars >= 7 * totalChars /\ Len(text) >= 10

isValidExtractedText(text) ==
  IF Len(text) = 0 \/ Len(Trim(text)) = 0 THEN FALSE
  ELSE LET readableChars == Len(SelectSeq(text, ReadableChar))
           totalChars == Len(text)
       IN  10 * readableChars > 7 * totalChars /\ Len(text) > 10

(***************************************************************************)
(* Files.  A File has a declared MIME type, a name, a size (in MB) and     *)
(* its bytes.  The bytes are modelled by what each reader makes of them:   *)
(*   text : the string file.text() resolves to (UTF-8 decoding),           *)
(*   pdf  : whether pdf.js accepts the bytes, and the text items of each   *)
(*          page (pdf.numPages = Len(pages)),                              *)
(*   docx : whether mammoth accepts the bytes, and the raw text.           *)
(***************************************************************************)
MIME_TXT  == "text/plain"
MIME_PDF  == "application/pdf"
MIME_DOCX == "application/vnd.openxmlformats-officedocument.wordprocessingml.document"

UpperSeq == <<"A","B","C","D","E","F","G","H","I","J","K","L","M",
              "N","O","P","Q","R","S","T","U","V","W","X","Y","Z">>
LowerSeq == <<"a","b","c","d","e","f","g","h","i","j","k","l","m",
              "n","o","p","q","r","s","t","u","v","w","x","y","z">>

\* String.prototype.toLowerCase, on the code units the model uses.
ToLowerChar(c) ==
  IF c \in Upper THEN LowerSeq[CHOOSE i \in 1..26 : UpperSeq[i] = c] ELSE c
ToLowerCase(s) == [i \in 1..Len(s) |-> ToLowerChar(s[i])]

\* String.prototype.endsWith
EndsWith(s, suffix) ==
  /\ Len(s) >= Len(suffix)
  /\ SubSeq(s, Len(s) - Len(suffix) + 1, Len(s)) = suffix

EXT_TXT  == <<".", "t", "x", "t">>
EXT_PDF  == <<".", "p", "d", "f">>
EXT_DOCX == <<".", "d", "o", "c", "x">>

\* A mutant of Strategy: a file that matches nothing is read as plain text.
StrategyDefaultTxt(file) ==
  IF file.type = MIME_TXT \/ EndsWith(ToLowerCase(file.name), EXT_TXT) THEN "txt"
  ELSE IF file.type = MIME_PDF \/ EndsWith(ToLowerCase(file.name), EXT_PDF) THEN "pdf"
  ELSE IF file.type = MIME_DOCX \/ EndsWith(ToLowerCase(file.name), EXT_DOCX) THEN "docx"
  ELSE "txt"

\* The if / else-if chain of extractTextFromFile (lines 125-138): the
\* extractor it calls, or "none" for the final else.
Strategy(file) ==
  IF file.type = MIME_TXT \/ EndsWith(ToLowerCase(file.name), EXT_TXT) THEN "txt"
  ELSE IF file.type = MIME_PDF \/ EndsWith(ToLowerCase(file.name), EXT_PDF) THEN "pdf"
  ELSE IF file.type = MIME_DOCX \/ EndsWith(ToLowerCase(file.name), EXT_DOCX) THEN "docx"
  ELSE "none"

(***************************************************************************)
(* TextExtractionResult (lines 7-12).  The optional fields error and       *)
(* pageCount are the empty sequence when absent, <<value>> when present.   *)
(***************************************************************************)
NoResult == [text |-> <<>>, success |-> FALSE, error |-> <<>>, pageCount |-> <<>>]

MSG_UNSUPPORTED == "Unsupported file type. Please upload a TXT, PDF, or DOCX file."
MSG_TXT_FAILED  == "Failed to read text file"
MSG_PDF_FAILED  == "Failed to extract text from PDF"
MSG_DOCX_FAILED == "Failed to extract text from DOCX"

\* What a rejected promise carries: an Error with a message (which may be
\* the empty string), or a value that is not an Error.
Faults == { [isError |-> TRUE,  message |-> "NotReadableError"],
            [isError |-> TRUE,  message |-> ""],
            [isError |-> FALSE, message |-> ""] }

\* error instanceof Error ? error.message : fallback  (lines 33, 85, 113)
ErrorMessage(e, fallback) == IF e.isError THEN e.message ELSE fallback

\* A mutant of FailureResult: the error field is left out.
FailureResultNoError(e, fallback) ==
  [text |-> <<>>, success |-> FALSE, error |-> <<>>, pageCount |-> <<>>]

\* The object a catch block returns (lines 30-34, 82-86, 110-114).
FailureResult(e, fallback) ==
  [text |-> <<>>, success |-> FALSE,
   error |-> <<ErrorMessage(e, fallback)>>, pageCount |-> <<>>]

\* A mutant of TxtSuccess: the text is returned as read, without trim().
TxtSuccessUntrimmed(text) ==
  [text |-> text, success |-> TRUE, error |-> <<>>, pageCount |-> <<>>]

\* The object extractTextFromTXT returns when file.text() resolves (24-27).
TxtSuccess(text) ==
  [text |-> Trim(text), success |-> TRUE, error |-> <<>>, pageCount |-> <<>>]

\* The object extractTextFromDOCX returns when mammoth resolves (103-106).
DocxSuccess(value) ==
  [text |-> Trim(value), success |-> TRUE, error |-> <<>>, pageCount |-> <<>>]

\* Array.prototype.join(' ') of the items' str fields (lines 61-63).
RECURSIVE JoinSpace(_)
JoinSpace(items) ==
  IF Len(items) = 0 THEN <<>>
  ELSE IF Len(items) = 1 THEN items[1]
  ELSE items[1] \o <<" ">> \o JoinSpace(Tail(items))

\* A mark for a position that produces no code unit.
Kept(c) == c # "DROPPED"

\* replace(/\s+/g, ' '): every maximal run of white space becomes one
\* space: its first code unit becomes a space and the others go.
CollapseWs(s) ==
  SelectSeq([k \in 1..Len(s) |->
               IF ~IsSpace(s[k]) THEN s[k]
               ELSE IF k > 1 /\ IsSpace(s[k - 1]) THEN "DROPPED" ELSE " "],
            Kept)

\* Index of the last "\n" among s[lo..hi] (0 if none).
LastNewline(s, lo, hi) ==
  LET S == {k \in lo..hi : s[k] = "\n"}
  IN  IF S = {} THEN 0 ELSE Greatest(S)

\* replace(/\n\s*\n/g, '\n'): a newline, a greedy run of white space and a
\* newline become one newline.
RECURSIVE CollapseBlankLines(_, _)
CollapseBlankLines(s, i) ==
  IF i > Len(s) THEN <<>>
  ELSE LET end == IF s[i] = "\n"
                  THEN LastNewline(s, i + 1, FirstNonSpace(s, i + 1) - 1)
                  ELSE 0
       IN  IF end > 0 THEN <<"\n">> \o CollapseBlankLines(s, end + 1)
           ELSE <<s[i]>> \o CollapseBlankLines(s, i + 1)

\* Lines 69-72.
CleanPdfText(text) == Trim(CollapseBlankLines(CollapseWs(text), 1))

\* A mutant of PdfSuccess: the result carries no pageCount.
PdfSuccessNoPageCount(text, n) ==
  [text |-> CleanPdfText(text), success |-> TRUE, error |-> <<>>, pageCount |-> <<>>]

\* The object extractTextFromPDF returns after the loop (lines 74-78).
PdfSuccess(text, n) ==
  [text |-> CleanPdfText(text), success |-> TRUE, error |-> <<>>, pageCount |-> <<n>>]

(***************************************************************************)
(* The bounded universe of files.                                          *)
(***************************************************************************)
\* Sample strings.
S_Hi       == <<"h", "i">>
S_Notes    == <<"M","e","e","t","i","n","g"," ","n","o","t","e","s">>
S_Padded   == <<" ", "\n">> \o S_Notes \o <<"\n", " ">>
S_Inner    == <<"a", " ", " ", "b", "\n", "c">>
S_Blank    == <<" ", "\n", " ">>
S_RawPdf   == <<"%","P","D","F","NUL","U+FFFD","U+FFFD","NUL","NUL","U+FFFD","NUL","NUL">>
S_RawZip   == <<"P","K","ETX","EOT","NUL","U+FFFD","NUL","NUL","NUL","U+FFFD","NUL","NUL">>

\* MaxNoise code units of binary noise (scenario C of the spec has 5).
MaxNoise == 5
S_Noise    == Rep("NUL", MaxNoise)

NotPdf  == [ok |-> FALSE, pages |-> <<>>]
NotDocx == [ok |-> FALSE, value |-> <<>>]

\* The bytes of a plain-text file with the given content: neither pdf.js
\* nor mammoth accepts them.
TextBytes(t) == [text |-> t, pdf |-> NotPdf, docx |-> NotDocx]
\* The bytes of a PDF with the given pages.
PdfBytes(pages) == [text |-> S_RawPdf, pdf |-> [ok |-> TRUE, pages |-> pages], docx |-> NotDocx]
\* The bytes of a DOCX whose raw text is v.
DocxBytes(v) == [text |-> S_RawZip, pdf |-> NotPdf, docx |-> [ok |-> TRUE, value |-> v]]

TextContents == {<<>>, S_Blank, S_Hi, S_Notes, S_Padded, S_Inner, S_Noise}

\* Up to MaxPages pages; a page is a sequence of text items.
MaxPages == 2
PageChoices == { <<>>, <<S_Notes>>, <<S_Hi, S_Blank>> }
PdfPageLists ==
  UNION { [1..n -> PageChoices] : n \in 1..MaxPages }

AllBytes ==
  { TextBytes(t) : t \in TextContents }
  \cup { PdfBytes(p) : p \in PdfPageLists }
  \cup { DocxBytes(v) : v \in {<<>>, S_Padded, S_Hi} }
  \cup { [text |-> S_RawPdf, pdf |-> NotPdf, docx |-> NotDocx] }

MimeTypes == {MIME_TXT, MIME_PDF, MIME_DOCX, "", "application/octet-stream", "image/png"}

FileNames == { <<"n">> \o EXT_TXT, <<"N", ".", "T", "X", "T">>,
               <<"r">> \o EXT_PDF, <<"R", ".", "P", "d", "f">>,
               <<"d">> \o EXT_DOCX, <<"p", ".", "p", "n", "g">>,
               <<"t", "x", "t">> }

AllFiles ==
  { [type |-> t, name |-> n, size |-> 1, data |-> d] :
      t \in MimeTypes, n \in FileNames, d \in AllBytes }

\* Line 5 of text-extraction.ts, run once when the module is imported.
WORKER_SRC == "//cdnjs.cloudflare.com/ajax/libs/pdf.js/${pdfjsLib.version}/pdf.worker.min.js"

NoFile == [type |-> "", name |-> <<>>, size |-> 0, data |-> TextBytes(<<>>)]

(***************************************************************************)
(* extractTextFromFile and the extractors it dispatches to, one action per *)
(* await.  pc = "call" is the entry; pc = "returned" is the promise        *)
(* resolved with `result`; pc = "rejected" is the promise rejected.        *)
(***************************************************************************)
ExtractUnused ==
  /\ pc = "idle"
  /\ cur = NoFile
  /\ result = NoResult
  /\ pageCount = 0
  /\ pageNum = 0
  /\ fullText = <<>>
  /\ trace = {}
  /\ fault = <<>>

Return(r) ==
  /\ pc' = "returned"
  /\ result' = r

\* A mutant of Catch: the fault is not caught and the promise rejects.
CatchRethrows(e, fallback) ==
  /\ pc' = "rejected"
  /\ UNCHANGED result

\* A mutant of Catch: the text accumulated so far is returned with the
\* failure.
CatchKeepsText(e, fallback) ==
  Return([FailureResult(e, fallback) EXCEPT !.text = fullText])

\* The catch blocks of the three extractors (lines 28-35, 80-87, 108-115).
Catch(e, fallback) == Return(FailureResult(e, fallback))

\* Lines 123-139: the dispatch.  The final else returns at once.
Dispatch ==
  /\ pc = "call"
  /\ LET st == Strategy(cur) IN
       IF st = "none"
       THEN /\ Return([text |-> <<>>, success |-> FALSE,
                       error |-> <<MSG_UNSUPPORTED>>, pageCount |-> <<>>])
            /\ UNCHANGED trace
       ELSE /\ pc' = st \o "_read"
            /\ trace' = trace \cup {st}
            /\ UNCHANGED result
  /\ UNCHANGED <<cur, pageCount, pageNum, fullText, fault>>
  /\ UNCHANGED <<validatorVars, uploadVars, parsePdfVars, callVars, dashVars, gmVars, histVars>>

\* Lines 19-36: await file.text() resolves, or rejects and is caught.
TxtRead ==
  /\ pc = "txt_read"
  /\ trace' = trace \cup {"read"}
  /\ \/ /\ Return(TxtSuccess(cur.data.text))
        /\ UNCHANGED fault
     \/ \E e \in Faults :
          /\ Catch(e, MSG_TXT_FAILED)
          /\ fault' = Append(fault, "read")
  /\ UNCHANGED <<cur, pageCount, pageNum, fullText>>
  /\ UNCHANGED <<validatorVars, uploadVars, parsePdfVars, callVars, dashVars, gmVars, histVars>>

\* Line 46: await file.arrayBuffer().
PdfRead ==
  /\ pc = "pdf_read"
  /\ trace' = trace \cup {"read"}
  /\ \/ /\ pc' = "pdf_load"
        /\ UNCHANGED <<result, fault>>
     \/ \E e \in Faults :
          /\ Catch(e, MSG_PDF_FAILED)
          /\ fault' = Append(fault, "read")
  /\ UNCHANGED <<cur, pageCount, pageNum, fullText>>
  /\ UNCHANGED <<validatorVars, uploadVars, parsePdfVars, callVars, dashVars, gmVars, histVars>>

\* A mutant of PdfLoad: a call that loads a document clears the module's
\* worker source.
PdfLoadClearsWorkerSrc ==
  /\ pc = "pdf_load"
  /\ \/ /\ cur.data.pdf.ok
        /\ workerSrc = WORKER_SRC
        /\ workerSrc' = ""
        /\ pc' = "pdf_loop"
        /\ pageCount' = Len(cur.data.pdf.pages)
        /\ pageNum' = 1
        /\ fullText' = <<>>
        /\ UNCHANGED <<result, fault>>
     \/ \E e \in Faults :
          /\ Catch(e, MSG_PDF_FAILED)
          /\ fault' = Append(fault, "load")
          /\ UNCHANGED <<pageCount, pageNum, fullText, workerSrc>>
  /\ UNCHANGED <<cur, trace, other, interleaved>>
  /\ UNCHANGED <<validatorVars, uploadVars, parsePdfVars, dashVars, gmVars, histVars>>

\* Lines 49-53: await loadingTask.promise.  It rejects for bytes that are
\* no PDF, and may reject for any bytes (the worker cannot be loaded).
PdfLoad ==
  /\ pc = "pdf_load"
  /\ \/ /\ cur.data.pdf.ok
        /\ workerSrc = WORKER_SRC
        /\ pc' = "pdf_loop"
        /\ pageCount' = Len(cur.data.pdf.pages)
        /\ pageNum' = 1
        /\ fullText' = <<>>
        /\ UNCHANGED <<result, fault>>
     \/ \E e \in Faults :
          /\ Catch(e, MSG_PDF_FAILED)
          /\ fault' = Append(fault, "load")
          /\ UNCHANGED <<pageCount, pageNum, fullText>>
  /\ UNCHANGED <<cur, trace>>
  /\ UNCHANGED <<validatorVars, uploadVars, parsePdfVars, callVars, dashVars, gmVars, histVars>>

\* Lines 56-58: the loop test and await pdf.getPage(pageNum).
PdfGetPage ==
  /\ pc = "pdf_loop"
  /\ pageNum <= pageCount
  /\ \/ /\ pc' = "pdf_page"
        /\ UNCHANGED <<result, fault>>
     \/ \E e \in Faults :
          /\ Catch(e, MSG_PDF_FAILED)
          /\ fault' = Append(fault, "page")
  /\ UNCHANGED <<cur, pageCount, pageNum, fullText, trace>>
  /\ UNCHANGED <<validatorVars, uploadVars, parsePdfVars, callVars, dashVars, gmVars, histVars>>

\* A mutant of PdfGetTextContent: when a page cannot be decoded the pages
\* collected so far are returned.
PdfGetTextContentPartial ==
  /\ pc = "pdf_page"
  /\ \/ /\ pc' = "pdf_loop"
        /\ fullText' = fullText \o JoinSpace(cur.data.pdf.pages[pageNum]) \o <<"\n", "\n">>
        /\ pageNum' = pageNum + 1
        /\ UNCHANGED <<result, fault>>
     \/ \E e \in Faults :
          /\ Return(PdfSuccess(fullText, pageNum - 1))
          /\ fault' = Append(fault, "page")
          /\ UNCHANGED <<pageNum, fullText>>
  /\ UNCHANGED <<cur, pageCount, trace>>
  /\ UNCHANGED <<validatorVars, uploadVars, parsePdfVars, callVars, dashVars, gmVars, histVars>>

\* Lines 58-65: await page.getTextContent(), the join and the append.
PdfGetTextContent ==
  /\ pc = "pdf_page"
  /\ \/ /\ pc' = "pdf_loop"
        /\ fullText' = fullText \o JoinSpace(cur.data.pdf.pages[pageNum]) \o <<"\n", "\n">>
        /\ pageNum' = pageNum + 1
        /\ UNCHANGED <<result, fault>>
     \/ \E e \in Faults :
          /\ Catch(e, MSG_PDF_FAILED)
          /\ fault' = Append(fault, "page")
          /\ UNCHANGED <<pageNum, fullText>>
  /\ UNCHANGED <<cur, pageCount, trace>>
  /\ UNCHANGED <<validatorVars, uploadVars, parsePdfVars, callVars, dashVars, gmVars, histVars>>

\* Lines 68-78: the loop has ended.
PdfFinish ==
  /\ pc = "pdf_loop"
  /\ pageNum > pageCount
  /\ Return(PdfSuccess(fullText, pageCount))
  /\ UNCHANGED <<cur, pageCount, pageNum, fullText, trace, fault>>
  /\ UNCHANGED <<validatorVars, uploadVars, parsePdfVars, callVars, dashVars, gmVars, histVars>>

\* Line 98: await file.arrayBuffer().
DocxRead ==
  /\ pc = "docx_read"
  /\ trace' = trace \cup {"read"}
  /\ \/ /\ pc' = "docx_parse"
        /\ UNCHANGED <<result, fault>>
     \/ \E e \in Faults :
          /\ Catch(e, MSG_DOCX_FAILED)
          /\ fault' = Append(fault, "read")
  /\ UNCHANGED <<cur, pageCount, pageNum, fullText>>
  /\ UNCHANGED <<validatorVars, uploadVars, parsePdfVars, callVars, dashVars, gmVars, histVars>>

\* A mutant of DocxParse: bytes that are no DOCX are returned as text.
DocxParseLenient ==
  /\ pc = "docx_parse"
  /\ \/ /\ Return(DocxSuccess(IF cur.data.docx.ok THEN cur.data.docx.value
                                ELSE cur.data.text))
        /\ UNCHANGED fault
     \/ \E e \in Faults :
          /\ Catch(e, MSG_DOCX_FAILED)
          /\ fault' = Append(fault, "decode")
  /\ UNCHANGED <<cur, pageCount, pageNum, fullText, trace>>
  /\ UNCHANGED <<validatorVars, uploadVars, parsePdfVars, callVars, dashVars, gmVars, histVars>>

\* Lines 101-106: await mammoth.extractRawText.
DocxParse ==
  /\ pc = "docx_parse"
  /\ \/ /\ cur.data.docx.ok
        /\ Return(DocxSuccess(cur.data.docx.value))
        /\ UNCHANGED fault
     \/ \E e \in Faults :
          /\ Catch(e, MSG_DOCX_FAILED)
          /\ fault' = Append(fault, "decode")
  /\ UNCHANGED <<cur, pageCount, pageNum, fullText, trace>>
  /\ UNCHANGED <<validatorVars, uploadVars, parsePdfVars, callVars, dashVars, gmVars, histVars>>

ExtractStep ==
  \/ Dispatch
  \/ TxtRead
  \/ PdfRead \/ PdfLoad \/ PdfGetPage \/ PdfGetTextContent \/ PdfFinish
  \/ DocxRead \/ DocxParse

(***************************************************************************)
(* FileUpload (FileUpload.tsx).                                            *)
(***************************************************************************)
UploadUnused ==
  /\ files = <<>>
  /\ processing = FALSE
  /\ dropToasts = <<>>
  /\ toasts = <<>>
  /\ delivered = <<>>

ValidatorUnused ==
  /\ vText = <<>>
  /\ vPc = "unused"
  /\ vOut = FALSE

\* The locals of a call that has not been made.
NoCall ==
  [pc |-> "idle", cur |-> NoFile, result |-> NoResult, pageCount |-> 0,
   pageNum |-> 0, fullText |-> <<>>, trace |-> {}, fault |-> <<>>]

\* The module is imported and no second call is in flight.
CallsUnused ==
  /\ workerSrc = WORKER_SRC
  /\ other = NoCall
  /\ interleaved = FALSE

\* The data of a response of generate-minutes as the Dashboard tests it:
\* null, an object, or another JSON value; for each of the three fields
\* whether it is absent, present but falsy ("" or null), or truthy.
FieldStates == {"absent", "falsy", "truthy"}
NoData ==
  [kind |-> "null", minutes_html |-> "absent", minutes_json |-> "absent",
   minutes_table |-> "absent"]
\* { data, error } of supabase.functions.invoke; error is <<>> for null and
\* <<message>> for an error.
NoOutcome == [error |-> <<>>, data |-> NoData]

DashboardUnused ==
  /\ dashImpl = "none"
  /\ dashPc = "unused"
  /\ transcript = <<>>
  /\ loading = FALSE
  /\ minutes = NoData
  /\ invoked = NoOutcome
  /\ dashToasts = <<>>
  /\ meetings = <<>>
  /\ shownFrom = NoOutcome

NoGmRequest == [method |-> "", body |-> "", transcript |-> "absent"]
NoGmApi == [fetch |-> "", status |-> 0, body |-> "", content |-> [kind |-> "none", fields |-> {}]]
NoGmResponse == [status |-> 0, kind |-> "none", fields |-> {}, error |-> ""]

HistoryUnused ==
  /\ histPc = "unused"
  /\ meetingsData = <<>>
  /\ memberActivity = <<>>

GenerateMinutesUnused ==
  /\ gmPc = "unused"
  /\ gmReq = NoGmRequest
  /\ gmKey = FALSE
  /\ gmApi = NoGmApi
  /\ gmResp = NoGmResponse

(***************************************************************************)
(* parse-pdf (supabase/functions/parse-pdf/index.ts).                      *)
(*                                                                         *)
(* A byte is written as the ASCII character it encodes, or by a name:      *)
(* "NUL" (0x00), "GRAVE" (0x60), "xC3", "xA9", "xEF", "xBB", "xBF", "xFF". *)
(***************************************************************************)
AsciiBytes ==
  Lower \cup Upper \cup Digit \cup
  {" ", "!", "\"", "#", "$", "%", "&", "'", "(", ")", "*", "+", ",", "-", ".",
   "/", ":", ";", "<", "=", ">", "?", "@", "[", "\\", "]", "^", "_", "GRAVE", "{",
   "|", "}", "~", "\t", "\n", "\r", "\f", "VT", "NUL"}

\* [\x20-\x7E]
PrintableAscii == AsciiBytes \ {"\t", "\n", "\r", "\f", "VT", "NUL"}

\* new TextDecoder('utf-8', { fatal: false }).decode (lines 32-33): ASCII
\* bytes decode to themselves, C3 A9 to one code unit, EF BB BF to U+FEFF,
\* and a byte that starts no valid sequence to U+FFFD.
\* The byte at i continues a sequence begun by the byte or bytes before it.
Continues(b, i) ==
  \/ i > 1 /\ b[i] = "xA9" /\ b[i - 1] = "xC3"
  \/ i > 1 /\ b[i] = "xBB" /\ b[i - 1] = "xEF"
  \/ i > 2 /\ b[i] = "xBF" /\ b[i - 1] = "xBB" /\ b[i - 2] = "xEF"

Utf8Decode(b) ==
  SelectSeq([i \in 1..Len(b) |->
               IF b[i] \in AsciiBytes THEN b[i]
               ELSE IF Continues(b, i) THEN "DROPPED"
               ELSE IF b[i] = "xC3" /\ i < Len(b) /\ b[i + 1] = "xA9" THEN "e-acute"
               ELSE IF b[i] = "xEF" /\ i + 1 < Len(b) /\ b[i + 1] = "xBB" /\ b[i + 2] = "xBF"
                    THEN "BOM"
               ELSE "U+FFFD"],
            Kept)

\* decode() also drops a byte order mark at the very start (ignoreBOM is
\* false by default).
Decode(b) ==
  LET t == Utf8Decode(b)
  IN  IF Len(t) > 0 /\ t[1] = "BOM" THEN Tail(t) ELSE t

\* Index of the first occurrence of lit in s at or after i (0 if none).
IndexOf(s, lit, i) ==
  LET S == {k \in i..(Len(s) - Len(lit) + 1) : SubSeq(s, k, k + Len(lit) - 1) = lit}
  IN  IF S = {} THEN 0 ELSE Least(S)

\* The matches of /open.*?close/gs in s from i on, found in t (s itself, or
\* s lower-cased for the i flag): from the leftmost open to the nearest
\* close after it, then on from the end of the match.
RECURSIVE Delimited(_, _, _, _, _)
Delimited(s, t, open, close, i) ==
  LET b == IndexOf(t, open, i) IN
    IF b = 0 THEN <<>>
    ELSE LET e == IndexOf(t, close, b + Len(open)) IN
           IF e = 0 THEN <<>>
           ELSE <<SubSeq(s, b, e + Len(close) - 1)>>
                \o Delimited(s, t, open, close, e + Len(close))

\* From j on: the index of the first ")" when no line terminator comes
\* before it (which "." would not match), 0 otherwise.
ClosesOrBreaks(c) == c = ")" \/ c \in LineTerminator
ParenEnd(s, j) ==
  LET k == FirstIn({n \in j..Len(s) : ClosesOrBreaks(s[n])}, Len(s) + 1)
  IN  IF k <= Len(s) /\ s[k] = ")" THEN k ELSE 0

\* s.match(/\((.*?)\)/g) from i on (lines 40, 55, 80).
RECURSIVE ParenLiterals(_, _)
ParenLiterals(s, i) ==
  LET b == IndexOf(s, <<"(">>, i) IN
    IF b = 0 THEN <<>>
    ELSE LET e == ParenEnd(s, b + 1) IN
           IF e = 0 THEN ParenLiterals(s, b + 1)
           ELSE <<SubSeq(s, b, e)>> \o ParenLiterals(s, e + 1)

NotParen(c) == c \notin {"(", ")"}
\* /[a-zA-Z]/.test(s)
HasLetter(s) == \E i \in 1..Len(s) : IsLetter(s[i])

\* Lines 42-47 (and 57-62, 82-87): what the literals add to extractedText.
RECURSIVE Fragments(_)
Fragments(lits) ==
  IF lits = <<>> THEN <<>>
  ELSE LET cleanText == Trim(SelectSeq(Head(lits), NotParen))
       IN  (IF Len(cleanText) > 0 /\ HasLetter(cleanText)
            THEN cleanText \o <<" ">> ELSE <<>>)
           \o Fragments(Tail(lits))

\* The loop over the matches (lines 38-49, 54-64, 79-89).
RECURSIVE FragmentsOfAll(_)
FragmentsOfAll(matches) ==
  IF matches = <<>> THEN <<>>
  ELSE Fragments(ParenLiterals(Head(matches), 1)) \o FragmentsOfAll(Tail(matches))

\* Method 2 (lines 35-49): /BT\s*.*?ET/gs
TextObjectScan(decoded) ==
  FragmentsOfAll(Delimited(decoded, decoded, <<"B","T">>, <<"E","T">>, 1))

\* Method 3 (lines 53-64): /stream\s*([\s\S]*?)\s*endstream/gi
StreamScan(decoded) ==
  FragmentsOfAll(Delimited(decoded, ToLowerCase(decoded),
                           <<"s","t","r","e","a","m">>,
                           <<"e","n","d","s","t","r","e","a","m">>, 1))

\* Method 5 (lines 78-89): /<<\s*.*?>>/gs
DictionaryScan(decoded) ==
  FragmentsOfAll(Delimited(decoded, decoded, <<"<","<">>, <<">",">">>, 1))

\* [a-zA-Z\s.,!?;:'"()-]
AsciiRunChar(c) == IsLetter(c) \/ IsSpace(c) \/ c \in Punct

\* The {15,} of line 69.
MinRunLength == 15

\* Index after the maximal run of AsciiRunChar that starts at i.
RunEnd(s, i) == FirstIn({k \in i..Len(s) : ~AsciiRunChar(s[k])}, Len(s) + 1)

\* A mutant of AsciiRuns: the {15,} of line 69 is read as +.
RECURSIVE AsciiRunsAnyLength(_, _)
AsciiRunsAnyLength(s, i) ==
  LET b == FirstIn({k \in i..Len(s) : AsciiRunChar(s[k])}, Len(s) + 1) IN
    IF b > Len(s) THEN <<>>
    ELSE LET e == RunEnd(s, b)
         IN  <<SubSeq(s, b, e - 1)>> \o AsciiRunsAnyLength(s, e)

\* decoded.match(/[a-zA-Z\s.,!?;:'"()-]{15,}/g) (line 69).
RECURSIVE AsciiRuns(_, _)
AsciiRuns(s, i) ==
  LET b == FirstIn({k \in i..Len(s) : AsciiRunChar(s[k])}, Len(s) + 1) IN
    IF b > Len(s) THEN <<>>
    ELSE LET e == RunEnd(s, b)
         IN  (IF e - b >= MinRunLength THEN <<SubSeq(s, b, e - 1)>> ELSE <<>>)
             \o AsciiRuns(s, e)

\* Method 4 (lines 69-72): the runs joined by spaces, collapsed and trimmed.
AsciiRunScan(decoded) ==
  Trim(CollapseWs(JoinSpace(AsciiRuns(decoded, 1))))

\* The matches of new RegExp(`${keyword}\\s*\\(([^)]+)\\)`, 'gi') (line 96);
\* t is s lower-cased, kw the keyword lower-cased.
RECURSIVE KeywordMatches(_, _, _, _)
KeywordMatches(s, t, kw, i) ==
  LET b == IndexOf(t, kw, i) IN
    IF b = 0 THEN <<>>
    ELSE LET p == FirstNonSpace(s, b + Len(kw))
             e == IF p <= Len(s) /\ s[p] = "(" THEN IndexOf(s, <<")">>, p + 1) ELSE 0
         IN  IF e > p + 1
             THEN <<SubSeq(s, b, e)>> \o KeywordMatches(s, t, kw, e + 1)
             ELSE KeywordMatches(s, t, kw, b + 1)

\* Lines 97-105: what the matches of one keyword add to extractedText.
RECURSIVE KeywordFragments(_)
KeywordFragments(matches) ==
  IF matches = <<>> THEN <<>>
  ELSE LET lits == ParenLiterals(Head(matches), 1)
           inner == IF lits = <<>> THEN <<>>
                    ELSE SubSeq(lits[1], 2, Len(lits[1]) - 1)
           cleanText == Trim(inner)
       IN  (IF Len(cleanText) > 0 /\ HasLetter(cleanText)
            THEN cleanText \o <<" ">> ELSE <<>>)
           \o KeywordFragments(Tail(matches))

\* The keywords of line 94, lower-cased, in order.
Keywords == << <<"/","t","e","x","t">>,
               <<"/","c","o","n","t","e","n","t","s">>,
               <<"/","p","a","g","e">>,
               <<"/","f","o","n","t">> >>

\* Method 6 (lines 94-106).
RECURSIVE KeywordScanFrom(_, _)
KeywordScanFrom(decoded, k) ==
  IF k > Len(Keywords) THEN <<>>
  ELSE KeywordFragments(KeywordMatches(decoded, ToLowerCase(decoded), Keywords[k], 1))
       \o KeywordScanFrom(decoded, k + 1)
KeywordScan(decoded) == KeywordScanFrom(decoded, 1)

\* Line 114: replace(/[^\x20-\x7E]/g, ' ')
ReplaceNonPrintable(s) ==
  [i \in 1..Len(s) |-> IF s[i] \in PrintableAscii THEN s[i] ELSE " "]

\* Line 119.
MinTextLength == 50

\* A mutant of CleanUp: the length threshold of lines 119-121 is left out.
CleanUpNoThreshold(text) ==
  IF Len(Trim(text)) = 0 THEN text
  ELSE Trim(CollapseWs(ReplaceNonPrintable(CollapseWs(text))))

\* A mutant of CleanUp: the replace of line 114 is left out.
CleanUpKeepsNonPrintable(text) ==
  IF Len(Trim(text)) = 0 THEN text
  ELSE LET cleaned == Trim(CollapseWs(CollapseWs(text)))
       IN  IF Len(cleaned) < MinTextLength THEN <<>> ELSE cleaned

\* Lines 110-122: the clean-up of a non-blank extractedText.
CleanUp(text) ==
  IF Len(Trim(text)) = 0 THEN text
  ELSE LET cleaned == Trim(CollapseWs(ReplaceNonPrintable(CollapseWs(text))))
       IN  IF Len(cleaned) < MinTextLength THEN <<>> ELSE cleaned

\* A mutant of StageGuard: the stage runs whatever was found before.
StageGuardAlways(text) == TRUE

\* if (!extractedText.trim())  (lines 52, 68, 76, 93)
StageGuard(text) == Len(Trim(text)) = 0

NoResponse == [status |-> 0, success |-> FALSE, text |-> <<>>, message |-> "", error |-> ""]

ParsePdfUnused ==
  /\ ppPc = "idle"
  /\ ppReq = [method |-> "", json |-> FALSE, isArray |-> FALSE, fileData |-> <<>>]
  /\ ppFullText = <<>>
  /\ extractedText = <<>>
  /\ ppRan = <<>>
  /\ ppYield = [st \in {} |-> <<>>]
  /\ ppResp = NoResponse

\* Lines 10-33: the preflight answer, the body, the input check, the decode.
PpReceive ==
  /\ ppPc = "received"
  /\ IF ppReq.method = "OPTIONS"
     THEN /\ ppPc' = "responded"
          /\ ppResp' = [NoResponse EXCEPT !.status = 200]
          /\ UNCHANGED ppFullText
     ELSE IF ~ppReq.json
     THEN /\ ppPc' = "responded"
          /\ ppResp' = [NoResponse EXCEPT !.status = 500, !.error = "SyntaxError"]
          /\ UNCHANGED ppFullText
     ELSE IF ~ppReq.isArray
     THEN /\ ppPc' = "responded"
          /\ ppResp' = [NoResponse EXCEPT !.status = 500,
                                          !.error = "Invalid file data provided"]
          /\ UNCHANGED ppFullText
     ELSE /\ ppPc' = "textobject"
          /\ ppFullText' = Decode(ppReq.fileData)
          /\ UNCHANGED ppResp
  /\ UNCHANGED <<ppReq, extractedText, ppRan, ppYield>>
  /\ UNCHANGED <<validatorVars, uploadVars, extractVars, callVars, dashVars, gmVars, histVars>>

\* One stage: it is attempted when `attempt` holds; found is what it adds.
Stage(name, next, attempt, found) ==
  /\ ppPc = name
  /\ ppPc' = next
  /\ IF attempt
     THEN /\ extractedText' = extractedText \o found
          /\ ppRan' = Append(ppRan, name)
          /\ ppYield' = (name :> found) @@ ppYield
     ELSE UNCHANGED <<extractedText, ppRan, ppYield>>
  /\ UNCHANGED <<ppReq, ppFullText, ppResp>>
  /\ UNCHANGED <<validatorVars, uploadVars, extractVars, callVars, dashVars, gmVars, histVars>>

\* Method 2, lines 35-49 (no guard).
Method2 ==
  Stage("textobject", "stream", TRUE, TextObjectScan(ppFullText))

\* Method 3, lines 51-65.
Method3 ==
  Stage("stream", "asciirun", StageGuard(extractedText), StreamScan(ppFullText))

\* Method 4, lines 67-73.  The assignment of line 71 replaces an
\* extractedText that the guard has found blank.
Method4 ==
  /\ ppPc = "asciirun"
  /\ ppPc' = "dictionary"
  /\ IF StageGuard(extractedText)
     THEN /\ ppRan' = Append(ppRan, "asciirun")
          /\ IF AsciiRuns(ppFullText, 1) # <<>>
             THEN /\ extractedText' = AsciiRunScan(ppFullText)
                  /\ ppYield' = ("asciirun" :> AsciiRunScan(ppFullText)) @@ ppYield
             ELSE /\ UNCHANGED extractedText
                  /\ ppYield' = ("asciirun" :> <<>>) @@ ppYield
     ELSE UNCHANGED <<extractedText, ppRan, ppYield>>
  /\ UNCHANGED <<ppReq, ppFullText, ppResp>>
  /\ UNCHANGED <<validatorVars, uploadVars, extractVars, callVars, dashVars, gmVars, histVars>>

\* Method 5, lines 75-90.
Method5 ==
  Stage("dictionary", "keyword", StageGuard(extractedText), DictionaryScan(ppFullText))

\* Method 6, lines 92-107.
Method6 ==
  Stage("keyword", "cleanup", StageGuard(extractedText), KeywordScan(ppFullText))

MSG_UNABLE == "Unable to extract readable text from file. This PDF might be: 1. Image-based (scanned document) ... 2. Encrypted or password-protected ... 3. Corrupted ... 4. Contains only images ..."

\* Lines 109-149: the clean-up, the final fallback and the response.  When
\* the fallback applies the response's text is the message, kept apart in
\* `message`.
PpRespond ==
  /\ ppPc = "cleanup"
  /\ ppPc' = "responded"
  /\ LET cleaned == CleanUp(extractedText) IN
       /\ extractedText' = cleaned
       /\ ppResp' = IF Len(Trim(cleaned)) = 0
                    THEN [NoResponse EXCEPT !.status = 200, !.success = TRUE,
                                            !.message = MSG_UNABLE]
                    ELSE [NoResponse EXCEPT !.status = 200, !.success = TRUE,
                                            !.text = Trim(cleaned)]
  /\ UNCHANGED <<ppReq, ppFullText, ppRan, ppYield>>
  /\ UNCHANGED <<validatorVars, uploadVars, extractVars, callVars, dashVars, gmVars, histVars>>

(***************************************************************************)
(* The requests of SpecParsePdf: the bytes are up to MaxObjects PDF-like   *)
(* objects, each a payload inside a wrapper, separated by newlines.        *)
(***************************************************************************)
MaxObjects == 2

\* Letters only: one long run for the blind scan.
B_Long == <<"N","o","t","e","s",":"," ">> \o Rep("a", MinTextLength)
B_Run  == <<"p","l","a","i","n"," ","r","e","a","d","a","b","l","e"," ","t","e","x","t">>
\* Long, but with a digit after every 8 letters, a control byte, a
\* two-byte character and a double space: no run of MinRunLength, and
\* exactly MinTextLength code units once cleaned.
B_Part  == Rep("a", 8) \o <<"7">>
B_Mixed == B_Part \o <<"xC3", "xA9">> \o B_Part \o <<"NUL">> \o B_Part
           \o <<"7", " ", " ", "7">> \o B_Part \o B_Part

Payloads ==
  { <<>>,
    <<"(", "H", "i", ")">>,
    <<"(", "1", "2", ")", "(", "a", "\n", "b", ")", "(", "xC3", "xA9", "NUL", "z", "xFF", ")">>,
    <<"(">> \o B_Long \o <<")">>,
    <<"(">> \o B_Mixed \o <<")">>,
    B_Run }

Wrappers == {"raw", "bt", "stream", "streambt", "dict", "font"}

Wrap(w, p) ==
  CASE w = "raw"      -> p
    [] w = "bt"       -> <<"B","T"," ">> \o p \o <<" ","T","j"," ","E","T">>
    [] w = "stream"   -> <<"s","t","r","e","a","m","\n">> \o p
                         \o <<"\n","e","n","d","s","t","r","e","a","m">>
    [] w = "streambt" -> <<"s","t","r","e","a","m","\n","B","T","\n">> \o p
                         \o <<"E","T","\n","e","n","d","s","t","r","e","a","m">>
    [] w = "dict"     -> <<"<","<"," ">> \o p \o <<" ",">",">">>
    [] w = "font"     -> <<"/","F","o","n","t"," ">> \o p

PdfObjects == { Wrap(w, p) : w \in Wrappers, p \in Payloads }

RECURSIVE JoinNewline(_)
JoinNewline(objs) ==
  IF Len(objs) = 0 THEN <<>>
  ELSE IF Len(objs) = 1 THEN objs[1]
  ELSE objs[1] \o <<"\n">> \o JoinNewline(Tail(objs))

PdfByteStrings ==
  { JoinNewline(objs) : objs \in UNION { [1..n -> PdfObjects] : n \in 0..MaxObjects } }

Requests ==
  { [method |-> "POST", json |-> TRUE, isArray |-> TRUE, fileData |-> b] :
      b \in PdfByteStrings }
  \cup { [method |-> "OPTIONS", json |-> FALSE, isArray |-> FALSE, fileData |-> <<>>],
         [method |-> "POST", json |-> FALSE, isArray |-> FALSE, fileData |-> <<>>],
         [method |-> "POST", json |-> TRUE, isArray |-> FALSE, fileData |-> <<>>] }

InitParsePdf ==
  /\ ppReq \in Requests
  /\ ppPc = "received"
  /\ ppFullText = <<>>
  /\ extractedText = <<>>
  /\ ppRan = <<>>
  /\ ppYield = [st \in {} |-> <<>>]
  /\ ppResp = NoResponse
  /\ UploadUnused
  /\ ExtractUnused
  /\ ValidatorUnused
  /\ CallsUnused
  /\ DashboardUnused
  /\ GenerateMinutesUnused
  /\ HistoryUnused

NextParsePdf ==
  \/ PpReceive
  \/ Method2 \/ Method3 \/ Method4 \/ Method5 \/ Method6
  \/ PpRespond

SpecParsePdf == InitParsePdf /\ [][NextParsePdf]_vars

\* The drop zone's limits, in MB (line 43 and line 60).
DropzoneMaxSize == 10
ValidatorMaxSize == 50

\* A mutant of isSupported: the suffixes are compared without their dot.
isSupportedNoDot(file) ==
  \/ file.type = MIME_TXT
  \/ file.type = MIME_PDF
  \/ file.type = MIME_DOCX
  \/ EndsWith(ToLowerCase(file.name), Tail(EXT_TXT))
  \/ EndsWith(ToLowerCase(file.name), Tail(EXT_PDF))
  \/ EndsWith(ToLowerCase(file.name), Tail(EXT_DOCX))

\* isSupported of the validator option (lines 46-51).
isSupported(file) ==
  \/ file.type = MIME_TXT
  \/ file.type = MIME_PDF
  \/ file.type = MIME_DOCX
  \/ EndsWith(ToLowerCase(file.name), EXT_TXT)
  \/ EndsWith(ToLowerCase(file.name), EXT_PDF)
  \/ EndsWith(ToLowerCase(file.name), EXT_DOCX)

\* The validator option (lines 44-68): the messages of the errors it
\* returns (none for null).
DropValidator(file) ==
  IF ~isSupported(file) THEN <<"Please upload a TXT, PDF, or DOCX file">>
  ELSE IF file.size > ValidatorMaxSize THEN <<"File must be smaller than 50MB">>
  ELSE <<>>

\* The errors the drop zone collects for a file under the options of lines
\* 36-69: the accept map, maxSize, and the validator.  A file is accepted
\* when there are none.
DropErrors(file) ==
  (IF isSupported(file) THEN <<>> ELSE <<"File type must be one of the accepted types">>)
  \o (IF file.size > DropzoneMaxSize THEN <<"File is larger than the maximum size">> ELSE <<>>)
  \o DropValidator(file)

Toast(title, description, variant) ==
  [title |-> title, description |-> description, variant |-> variant,
   fileName |-> <<>>, pages |-> <<>>]

\* The files a user drops in the model.
DropFiles ==
  { [type |-> MIME_TXT, name |-> <<"n">> \o EXT_TXT, size |-> 1, data |-> TextBytes(t)] :
      t \in {<<>>, S_Notes, S_Padded, S_Noise} }
  \cup
  { [type |-> "", name |-> <<"N", ".", "T", "X", "T">>, size |-> 1, data |-> TextBytes(S_Hi)],
    [type |-> MIME_PDF, name |-> <<"r">> \o EXT_PDF, size |-> 1,
     data |-> PdfBytes(<<<<S_Notes>>>>)],
    [type |-> MIME_PDF, name |-> <<"r">> \o EXT_PDF, size |-> 1,
     data |-> PdfBytes(<<<<>>>>)],
    [type |-> "", name |-> <<"R", ".", "P", "d", "f">>, size |-> 1,
     data |-> PdfBytes(<<<<S_Notes>>, <<S_Hi, S_Blank>>>>)],
    [type |-> MIME_PDF, name |-> <<"r">> \o EXT_PDF, size |-> 1,
     data |-> TextBytes(S_Notes)],
    [type |-> MIME_PDF, name |-> <<"n">> \o EXT_TXT, size |-> 1,
     data |-> PdfBytes(<<<<S_Notes>>>>)],
    [type |-> MIME_DOCX, name |-> <<"d">> \o EXT_DOCX, size |-> 1,
     data |-> DocxBytes(S_Padded)],
    [type |-> "application/octet-stream", name |-> <<"d">> \o EXT_DOCX, size |-> 1,
     data |-> TextBytes(S_Notes)],
    [type |-> "image/png", name |-> <<"p", ".", "p", "n", "g">>, size |-> 1,
     data |-> TextBytes(S_Noise)],
    [type |-> "application/octet-stream", name |-> <<"t", "x", "t">>, size |-> 1,
     data |-> TextBytes(S_Notes)],
    [type |-> MIME_TXT, name |-> <<"n">> \o EXT_TXT, size |-> 20, data |-> TextBytes(S_Notes)],
    [type |-> MIME_PDF, name |-> <<"r">> \o EXT_PDF, size |-> 60,
     data |-> PdfBytes(<<<<S_Notes>>>>)] }

\* The number of selected files the model lets accumulate.
MaxFiles == 2

\* onDrop (lines 20-34) for a drop of one file: the drop zone hands it over
\* as accepted, or as rejected with its errors, one toast per error.
OnDrop ==
  /\ Len(files) < MaxFiles
  /\ \E f \in DropFiles :
       LET errors == DropErrors(f) IN
         /\ files' = IF errors = <<>> THEN Append(files, f) ELSE files
         /\ dropToasts' = [i \in 1..Len(errors) |->
                             Toast("File Upload Failed", errors[i], "destructive")]
  /\ UNCHANGED <<processing, toasts, delivered>>
  /\ UNCHANGED <<validatorVars, extractVars, parsePdfVars, callVars, dashVars, gmVars, histVars>>

\* removeFile (lines 71-73); its button is disabled while processing.
RemoveFile ==
  /\ ~processing
  /\ \E index \in 1..Len(files) :
       files' = SubSeq(files, 1, index - 1) \o SubSeq(files, index + 1, Len(files))
  /\ UNCHANGED <<processing, dropToasts, toasts, delivered>>
  /\ UNCHANGED <<validatorVars, extractVars, parsePdfVars, callVars, dashVars, gmVars, histVars>>

\* handleProcessFiles (lines 130-134) up to the first await of processFile
\* (lines 88-93).  The button is rendered for a non-empty list and disabled
\* while processing.
HandleProcessFiles ==
  /\ Len(files) > 0
  /\ ~processing
  /\ pc = "idle"
  /\ processing' = TRUE
  /\ cur' = files[1]
  /\ pc' = "call"
  /\ result' = NoResult
  /\ toasts' = <<>>
  /\ delivered' = <<>>
  /\ trace' = {}
  /\ fault' = <<>>
  /\ pageCount' = 0
  /\ pageNum' = 0
  /\ fullText' = <<>>
  /\ UNCHANGED <<files, dropToasts>>
  /\ UNCHANGED <<validatorVars, parsePdfVars, callVars, dashVars, gmVars, histVars>>

MSG_EXTRACT_FAILED == "Failed to extract text from file"
MSG_CORRUPTED ==
  "Extracted text appears to be corrupted or contains mostly non-readable characters"

\* result.error || 'Failed to extract text from file'  (line 96)
ThrownMessage(r) ==
  IF r.error # <<>> /\ r.error[1] # "" THEN r.error[1] ELSE MSG_EXTRACT_FAILED

\* A mutant of ProcessOutcome: the isValidExtractedText check is missing.
ProcessOutcomeNoValidation(r) ==
  IF ~r.success THEN [ok |-> FALSE, message |-> ThrownMessage(r)]
  ELSE [ok |-> TRUE, message |-> ""]

\* A mutant of ProcessOutcome: a failure is not thrown.
ProcessOutcomeIgnoresFailure(r) ==
  IF r.success /\ ~isValidExtractedText(r.text) THEN [ok |-> FALSE, message |-> MSG_CORRUPTED]
  ELSE [ok |-> TRUE, message |-> ""]

\* Lines 95-102 of processFile: which of the two throws is taken, if any.
ProcessOutcome(r) ==
  IF ~r.success THEN [ok |-> FALSE, message |-> ThrownMessage(r)]
  ELSE IF ~isValidExtractedText(r.text) THEN [ok |-> FALSE, message |-> MSG_CORRUPTED]
  ELSE [ok |-> TRUE, message |-> ""]

\* A mutant of ProcessFileContinue: only the processed file leaves the list.
ProcessFileContinueKeepsRest ==
  /\ processing
  /\ pc = "returned"
  /\ LET o == ProcessOutcome(result) IN
       IF o.ok
       THEN /\ delivered' = Append(delivered, [content |-> result.text, fileName |-> cur.name])
            /\ toasts' = Append(toasts,
                 [title |-> "File Processed Successfully!",
                  description |-> "Successfully extracted text from file",
                  variant |-> "default",
                  fileName |-> cur.name,
                  pages |-> IF result.pageCount # <<>> /\ result.pageCount[1] # 0
                            THEN result.pageCount ELSE <<>>])
       ELSE /\ toasts' = Append(toasts,
                 Toast("File Processing Failed", o.message, "destructive"))
            /\ UNCHANGED delivered
  /\ processing' = FALSE
  /\ files' = Tail(files)
  /\ pc' = "idle"
  \* the locals of the finished call are out of scope
  /\ pageCount' = 0
  /\ pageNum' = 0
  /\ fullText' = <<>>
  /\ UNCHANGED <<dropToasts, cur, result, trace, fault>>
  /\ UNCHANGED <<validatorVars, parsePdfVars, callVars, dashVars, gmVars, histVars>>

\* processFile after extractTextFromFile has resolved (lines 95-127), and
\* the rest of handleProcessFiles (line 135).
ProcessFileContinue ==
  /\ processing
  /\ pc = "returned"
  /\ LET o == ProcessOutcome(result) IN
       IF o.ok
       THEN /\ delivered' = Append(delivered, [content |-> result.text, fileName |-> cur.name])
            /\ toasts' = Append(toasts,
                 [title |-> "File Processed Successfully!",
                  description |-> "Successfully extracted text from file",
                  variant |-> "default",
                  fileName |-> cur.name,
                  pages |-> IF result.pageCount # <<>> /\ result.pageCount[1] # 0
                            THEN result.pageCount ELSE <<>>])
       ELSE /\ toasts' = Append(toasts,
                 Toast("File Processing Failed", o.message, "destructive"))
            /\ UNCHANGED delivered
  /\ processing' = FALSE
  /\ files' = <<>>
  /\ pc' = "idle"
  \* the locals of the finished call are out of scope
  /\ pageCount' = 0
  /\ pageNum' = 0
  /\ fullText' = <<>>
  /\ UNCHANGED <<dropToasts, cur, result, trace, fault>>
  /\ UNCHANGED <<validatorVars, parsePdfVars, callVars, dashVars, gmVars, histVars>>

(***************************************************************************)
(* Spec: the FileUpload component, with the extraction it awaits.          *)
(***************************************************************************)
Init ==
  /\ UploadUnused
  /\ ExtractUnused
  /\ ParsePdfUnused
  /\ ValidatorUnused
  /\ CallsUnused
  /\ DashboardUnused
  /\ GenerateMinutesUnused
  /\ HistoryUnused

Next ==
  \/ OnDrop
  \/ RemoveFile
  \/ HandleProcessFiles
  \/ ExtractStep
  \/ ProcessFileContinue

Spec == Init /\ [][Next]_vars

(***************************************************************************)
(* SpecExtract: one call of extractTextFromFile on any file.               *)
(***************************************************************************)
InitExtract ==
  /\ cur \in AllFiles
  /\ pc = "call"
  /\ result = NoResult
  /\ pageCount = 0
  /\ pageNum = 0
  /\ fullText = <<>>
  /\ trace = {}
  /\ fault = <<>>
  /\ UploadUnused
  /\ ValidatorUnused
  /\ ParsePdfUnused
  /\ CallsUnused
  /\ DashboardUnused
  /\ GenerateMinutesUnused
  /\ HistoryUnused

NextExtract == ExtractStep

SpecExtract == InitExtract /\ [][NextExtract]_vars

(***************************************************************************)
(* SpecEither: one run of either entry point, a call of                    *)
(* extractTextFromFile or a request to parse-pdf.                          *)
(***************************************************************************)
InitEither == InitExtract \/ InitParsePdf

NextEither == NextExtract \/ NextParsePdf

SpecEither == InitEither /\ [][NextEither]_vars

(***************************************************************************)
(* SpecCalls: two calls of extractTextFromFile in one page.  JavaScript    *)
(* runs one call at a time and changes to another only at an await, that   *)
(* is between two actions of ExtractStep: the variables of extractVars are *)
(* the locals of the call that runs, `other` holds the locals of the call  *)
(* that waits.  The two calls are made for the same file or for different  *)
(* files and run one after the other or interleaved.                       *)
(***************************************************************************)
CallFiles ==
  { [type |-> MIME_TXT, name |-> <<"n">> \o EXT_TXT, size |-> 1, data |-> TextBytes(S_Padded)],
    [type |-> MIME_PDF, name |-> <<"r">> \o EXT_PDF, size |-> 1,
     data |-> PdfBytes(<< <<S_Notes>>, <<S_Hi, S_Blank>> >>)],
    [type |-> MIME_PDF, name |-> <<"r">> \o EXT_PDF, size |-> 1,
     data |-> PdfBytes(<< <<S_Hi, S_Blank>> >>)],
    [type |-> MIME_PDF, name |-> <<"r">> \o EXT_PDF, size |-> 1, data |-> TextBytes(S_Notes)],
    [type |-> MIME_DOCX, name |-> <<"d">> \o EXT_DOCX, size |-> 1, data |-> DocxBytes(S_Padded)],
    [type |-> "image/png", name |-> <<"p", ".", "p", "n", "g">>, size |-> 1,
     data |-> TextBytes(S_Noise)] }

\* The locals of the call that runs.
Locals ==
  [pc |-> pc, cur |-> cur, result |-> result, pageCount |-> pageCount,
   pageNum |-> pageNum, fullText |-> fullText, trace |-> trace, fault |-> fault]

\* A mutant of Switch: fullText is one variable of the module, shared by
\* the calls, instead of a local of each call.
SwitchSharingFullText ==
  /\ other.pc \notin {"idle", "returned"}
  /\ other' = Locals
  /\ pc' = other.pc
  /\ cur' = other.cur
  /\ result' = other.result
  /\ pageCount' = other.pageCount
  /\ pageNum' = other.pageNum
  /\ trace' = other.trace
  /\ fault' = other.fault
  /\ interleaved' = (interleaved \/ pc \notin {"call", "returned"})
  /\ UNCHANGED <<workerSrc, fullText>>
  /\ UNCHANGED <<validatorVars, uploadVars, parsePdfVars, dashVars, gmVars, histVars>>

\* The call that runs has reached an await (or has returned) and the event
\* loop resumes the other call, which has not returned yet.
Switch ==
  /\ other.pc \notin {"idle", "returned"}
  /\ other' = Locals
  /\ pc' = other.pc
  /\ cur' = other.cur
  /\ result' = other.result
  /\ pageCount' = other.pageCount
  /\ pageNum' = other.pageNum
  /\ fullText' = other.fullText
  /\ trace' = other.trace
  /\ fault' = other.fault
  /\ interleaved' = (interleaved \/ pc \notin {"call", "returned"})
  /\ UNCHANGED workerSrc
  /\ UNCHANGED <<validatorVars, uploadVars, parsePdfVars, dashVars, gmVars, histVars>>

InitCalls ==
  /\ cur \in CallFiles
  /\ pc = "call"
  /\ result = NoResult
  /\ pageCount = 0
  /\ pageNum = 0
  /\ fullText = <<>>
  /\ trace = {}
  /\ fault = <<>>
  /\ workerSrc = WORKER_SRC
  /\ \E f \in CallFiles : other = [NoCall EXCEPT !.pc = "call", !.cur = f]
  /\ interleaved = FALSE
  /\ UploadUnused
  /\ ValidatorUnused
  /\ ParsePdfUnused
  /\ DashboardUnused
  /\ GenerateMinutesUnused
  /\ HistoryUnused

NextCalls == ExtractStep \/ Switch

SpecCalls == InitCalls /\ [][NextCalls]_vars

(***************************************************************************)
(* SpecValidator: isValidExtractedText applied to bounded inputs.          *)
(* An input is three runs of code units, each run up to MaxRun long, so    *)
(* that lengths around 10 and ratios around 0.70 (7/10, 14/20) occur.      *)
(***************************************************************************)
MaxRun == 14

\* a letter, a digit, punctuation, two kinds of white space, a printable
\* character outside the readable class and a control byte.
ValidatorChars == {"a", "7", " ", "\n", "#", "NUL"}
ValidatorRunChars == {"a", " ", "#"}

ValidatorInputs ==
  { Rep(c1, n1) \o Rep(c2, n2) \o <<c3>> :
      c1 \in ValidatorRunChars, c2 \in ValidatorRunChars, c3 \in ValidatorChars,
      n1 \in 0..MaxRun, n2 \in 0..MaxRun }
  \cup { Rep(c1, n1) : c1 \in ValidatorRunChars, n1 \in 0..MaxRun }

InitValidator ==
  /\ vText \in ValidatorInputs
  /\ vPc = "idle"
  /\ vOut = FALSE
  /\ UploadUnused
  /\ ExtractUnused
  /\ ParsePdfUnused
  /\ CallsUnused
  /\ DashboardUnused
  /\ GenerateMinutesUnused
  /\ HistoryUnused

Validate ==
  /\ vPc = "idle"
  /\ vPc' = "returned"
  /\ vOut' = isValidExtractedText(vText)
  /\ UNCHANGED <<vText, uploadVars, extractVars, parsePdfVars, callVars, dashVars, gmVars, histVars>>

NextValidator == Validate

SpecValidator == InitValidator /\ [][NextValidator]_vars

(***************************************************************************)
(* The Dashboard's generateMinutes.  The repository holds two sources of   *)
(* the component: src/pages/Dashboard.tsx (lines 21-54) and the Dashboard  *)
(* of unnamed/part_001 (lines 104-172); dashImpl says which one runs.      *)
(***************************************************************************)
DASHBOARD_TSX == "src/pages/Dashboard.tsx"
PART_001 == "unnamed/part_001"

\* JSON values a response body can be: null, a falsy scalar (0, "", false),
\* a truthy scalar or array, or an object with any state of the fields.
DataValues ==
  { [NoData EXCEPT !.kind = k] : k \in {"null", "falsy", "scalar"} }
  \cup { [kind |-> "object", minutes_html |-> h, minutes_json |-> j, minutes_table |-> t] :
           h \in FieldStates, j \in FieldStates, t \in FieldStates }

\* !data
Falsy(data) == data.kind \in {"null", "falsy"}
\* data.minutes_json, data.minutes_html as conditions.
HasField(data, f) == data.kind = "object" /\ data[f] = "truthy"

MSG_NON_2XX == "Edge Function returned a non-2xx status code"
\* invoke resolves with data and no error, or with an error (whose message
\* may be empty) and null data.
Outcomes ==
  { [error |-> <<>>, data |-> d] : d \in DataValues }
  \cup { [error |-> <<m>>, data |-> NoData] : m \in {MSG_NON_2XX, ""} }

Transcripts == { <<>>, S_Blank, S_Notes, S_Padded }

\* The bound on the rows inserted into the meetings table.
MaxMeetings == 1

\* error.message || fallback  (Dashboard.tsx 48, part_001 140)
OrFallback(message, fallback) == IF message = "" THEN fallback ELSE message

FailedToast(message, fallback) ==
  Toast("Generation Failed", OrFallback(message, fallback), "destructive")

\* onChange of the Textarea (Dashboard.tsx 90, part_001 208).
OnTranscriptChange ==
  /\ dashPc = "idle"
  /\ \E t \in Transcripts : t # transcript /\ transcript' = t
  /\ dashToasts' = <<>>
  /\ invoked' = NoOutcome
  /\ UNCHANGED <<dashImpl, dashPc, loading, minutes, meetings, shownFrom>>
  /\ UNCHANGED <<validatorVars, uploadVars, extractVars, parsePdfVars, callVars, gmVars, histVars>>

\* handleFileContent (Dashboard.tsx 56-62, part_001 174-180).
HandleFileContent ==
  /\ dashPc = "idle"
  /\ \E t \in {S_Notes, S_Padded} :
       /\ transcript' = t
       /\ dashToasts' = <<Toast("File Processed", "Successfully loaded content from", "default")>>
  /\ invoked' = NoOutcome
  /\ UNCHANGED <<dashImpl, dashPc, loading, minutes, meetings, shownFrom>>
  /\ UNCHANGED <<validatorVars, uploadVars, extractVars, parsePdfVars, callVars, gmVars, histVars>>

\* A mutant of GenerateMinutes: the test of the transcript is missing.
GenerateMinutesNoTranscriptTest ==
  /\ dashPc = "idle"
  /\ ~loading
  /\ Len(meetings) < MaxMeetings
  /\ invoked' = NoOutcome
  /\ dashToasts' = <<>>
  /\ loading' = TRUE
  /\ dashPc' = "invoke"
  /\ UNCHANGED <<dashImpl, transcript, minutes, meetings, shownFrom>>
  /\ UNCHANGED <<validatorVars, uploadVars, extractVars, parsePdfVars, callVars, gmVars, histVars>>

\* generateMinutes up to the await of invoke (Dashboard.tsx 21-35, part_001
\* 104-118), called with whatever the transcript is: the function makes its
\* own test of it (Dashboard.tsx 22, part_001 105).  No call is made while
\* loading (the button is disabled, Dashboard.tsx 95, part_001 213).
GenerateMinutes ==
  /\ dashPc = "idle"
  /\ ~loading
  /\ Len(meetings) < MaxMeetings
  /\ invoked' = NoOutcome
  /\ IF Len(Trim(transcript)) = 0
     THEN /\ dashToasts' = <<Toast("Transcript Required",
                                   "Please provide a meeting transcript to generate minutes.",
                                   "destructive")>>
          /\ UNCHANGED <<dashPc, loading>>
     ELSE /\ dashToasts' = <<>>
          /\ loading' = TRUE
          /\ dashPc' = "invoke"
  /\ UNCHANGED <<dashImpl, transcript, minutes, meetings, shownFrom>>
  /\ UNCHANGED <<validatorVars, uploadVars, extractVars, parsePdfVars, callVars, gmVars, histVars>>

\* src/pages/Dashboard.tsx 33-53: the await settles; an error is thrown to
\* the catch block, any data is set and announced.
InvokeSettles ==
  /\ dashImpl = DASHBOARD_TSX
  /\ dashPc = "invoke"
  /\ \E o \in Outcomes :
       /\ invoked' = o
       /\ IF o.error # <<>>
          THEN /\ dashToasts' = <<FailedToast(o.error[1], "Failed to generate meeting minutes.")>>
               /\ UNCHANGED <<minutes, shownFrom>>
          ELSE /\ minutes' = o.data
               /\ shownFrom' = o
               /\ dashToasts' = <<Toast("Minutes Generated!",
                                        "Your meeting minutes have been successfully generated.",
                                        "default")>>
  /\ loading' = FALSE
  /\ dashPc' = "idle"
  /\ UNCHANGED <<dashImpl, transcript, meetings>>
  /\ UNCHANGED <<validatorVars, uploadVars, extractVars, parsePdfVars, callVars, gmVars, histVars>>

\* A mutant of InvokeSettlesValidated: setLoading(false) is not in a finally
\* block, and an error of invoke skips it.
InvokeSettlesValidatedNoFinally ==
  /\ dashImpl = PART_001
  /\ dashPc = "invoke"
  /\ \E o \in Outcomes :
       /\ invoked' = o
       /\ IF o.error # <<>>
          THEN /\ dashToasts' = <<FailedToast(o.error[1],
                                   "Failed to generate meeting notes. Please try again.")>>
               /\ UNCHANGED loading
               /\ dashPc' = "idle"
               /\ UNCHANGED <<minutes, shownFrom>>
          ELSE IF Falsy(o.data) \/ ~HasField(o.data, "minutes_json")
                  \/ ~HasField(o.data, "minutes_html")
          THEN /\ dashToasts' = <<FailedToast("Invalid response format from AI service",
                                   "Failed to generate meeting notes. Please try again.")>>
               /\ loading' = FALSE
               /\ dashPc' = "idle"
               /\ UNCHANGED <<minutes, shownFrom>>
          ELSE /\ minutes' = o.data
               /\ shownFrom' = o
               /\ dashPc' = "save"
               /\ UNCHANGED <<dashToasts, loading>>
  /\ UNCHANGED <<dashImpl, transcript, meetings>>
  /\ UNCHANGED <<validatorVars, uploadVars, extractVars, parsePdfVars, callVars, gmVars, histVars>>

\* unnamed/part_001 116-130 and 136-145: the await settles; an error or a
\* response without minutes_json or minutes_html is thrown to the catch
\* block, valid data is set and saveMeetingToDatabase is awaited.
InvokeSettlesValidated ==
  /\ dashImpl = PART_001
  /\ dashPc = "invoke"
  /\ \E o \in Outcomes :
       /\ invoked' = o
       /\ IF o.error # <<>>
          THEN /\ dashToasts' = <<FailedToast(o.error[1],
                                   "Failed to generate meeting notes. Please try again.")>>
               /\ loading' = FALSE
               /\ dashPc' = "idle"
               /\ UNCHANGED <<minutes, shownFrom>>
          ELSE IF Falsy(o.data) \/ ~HasField(o.data, "minutes_json")
                  \/ ~HasField(o.data, "minutes_html")
          THEN /\ dashToasts' = <<FailedToast("Invalid response format from AI service",
                                   "Failed to generate meeting notes. Please try again.")>>
               /\ loading' = FALSE
               /\ dashPc' = "idle"
               /\ UNCHANGED <<minutes, shownFrom>>
          ELSE /\ minutes' = o.data
               /\ shownFrom' = o
               /\ dashPc' = "save"
               /\ UNCHANGED <<dashToasts, loading>>
  /\ UNCHANGED <<dashImpl, transcript, meetings>>
  /\ UNCHANGED <<validatorVars, uploadVars, extractVars, parsePdfVars, callVars, gmVars, histVars>>

\* unnamed/part_001 130-135, 143-145 and 148-172: the insert succeeds or
\* fails (the failure is only logged), then the toast and the finally.
SaveMeeting ==
  /\ dashImpl = PART_001
  /\ dashPc = "save"
  /\ \/ meetings' = Append(meetings, [transcript |-> transcript, minutes |-> minutes])
     \/ UNCHANGED meetings
  /\ dashToasts' = <<Toast("Notes Generated!",
                           "Your meeting notes have been successfully generated and saved.",
                           "default")>>
  /\ loading' = FALSE
  /\ dashPc' = "idle"
  /\ UNCHANGED <<dashImpl, transcript, minutes, invoked, shownFrom>>
  /\ UNCHANGED <<validatorVars, uploadVars, extractVars, parsePdfVars, callVars, gmVars, histVars>>

InitDashboard ==
  /\ dashImpl \in {DASHBOARD_TSX, PART_001}
  /\ dashPc = "idle"
  /\ transcript = <<>>
  /\ loading = FALSE
  /\ minutes = NoData
  /\ invoked = NoOutcome
  /\ dashToasts = <<>>
  /\ meetings = <<>>
  /\ shownFrom = NoOutcome
  /\ UploadUnused
  /\ ExtractUnused
  /\ ValidatorUnused
  /\ ParsePdfUnused
  /\ CallsUnused
  /\ GenerateMinutesUnused
  /\ HistoryUnused

NextDashboard ==
  \/ OnTranscriptChange
  \/ HandleFileContent
  \/ GenerateMinutes
  \/ InvokeSettles
  \/ InvokeSettlesValidated
  \/ SaveMeeting

SpecDashboard == InitDashboard /\ [][NextDashboard]_vars

(***************************************************************************)
(* SpecBusy: either component, with the steps that settle an awaited       *)
(* operation taken eventually.  dashImpl = "none" when FileUpload runs.    *)
(***************************************************************************)
InitBusy == Init \/ InitDashboard

NextBusy ==
  \/ dashImpl = "none" /\ Next
  \/ dashImpl # "none" /\ NextDashboard

\* The awaited promises settle and the continuations run.
FairBusy ==
  /\ WF_vars(ExtractStep)
  /\ WF_vars(ProcessFileContinue)
  /\ WF_vars(InvokeSettles)
  /\ WF_vars(InvokeSettlesValidated)
  /\ WF_vars(SaveMeeting)

SpecBusy == InitBusy /\ [][NextBusy]_vars /\ FairBusy

(***************************************************************************)
(* generate-minutes (supabase/functions/generate-minutes/index.ts).        *)
(***************************************************************************)
MinutesKeys == {"minutes_html", "minutes_json", "minutes_table"}

\* The keys a JSON object written by the model can hold: the three the
\* prompt asks for, and any other.
ObjectKeys == MinutesKeys \cup {"other"}

\* JSON values that are no object.
JsonScalars == {"json_number", "json_string", "json_array", "json_null", "json_boolean"}

\* choices[0].message.content: null, text that is no JSON (the empty string
\* included), a JSON object with some keys, or another JSON value.
Contents ==
  { [kind |-> k, fields |-> {}] : k \in {"null", "text"} \cup JsonScalars }
  \cup { [kind |-> "object", fields |-> f] : f \in SUBSET ObjectKeys }

\* The request: its method, its body (no JSON, the JSON null, a JSON
\* object) and the transcript member of that object.  A GET carries no
\* body.
GmRequests ==
  { r \in [method : {"OPTIONS", "POST", "GET"},
           body : {"invalid", "null", "object"},
           transcript : {"absent", "empty", "string", "nonstring"}] :
      /\ (r.body # "object" => r.transcript = "absent")
      /\ (r.method = "GET" => r.body = "invalid") }

\* !transcript of line 18.
GmFalsy(t) == t \in {"absent", "empty"}

MSG_BODY == "request body is not a JSON object"
MSG_TRANSCRIPT == "Transcript is required"
MSG_KEY == "OpenRouter API key not configured"
MSG_FETCH == "fetch failed"
MSG_API == "OpenRouter API error"
MSG_API_BODY == "response body is not JSON"
MSG_STRUCTURE == "Invalid response from OpenRouter API"
MSG_CONTENT == "cannot read length of null"

\* The statuses of a response that is not ok.
ApiErrorStatuses == {400, 401, 402, 429, 500, 503}

\* The catch block of lines 161-173.
GmError(message) == [status |-> 500, kind |-> "error", fields |-> {"error", "details"}, error |-> message]

\* Lines 10-25: the preflight answer, the body, the transcript, the key.
GmReceive ==
  /\ gmPc = "received"
  /\ IF gmReq.method = "OPTIONS"
     THEN /\ gmPc' = "responded"
          /\ gmResp' = [status |-> 200, kind |-> "none", fields |-> {}, error |-> ""]
     ELSE IF gmReq.body # "object"
     THEN /\ gmPc' = "responded"
          /\ gmResp' = GmError(MSG_BODY)
     ELSE IF GmFalsy(gmReq.transcript)
     THEN /\ gmPc' = "responded"
          /\ gmResp' = GmError(MSG_TRANSCRIPT)
     ELSE IF ~gmKey
     THEN /\ gmPc' = "responded"
          /\ gmResp' = GmError(MSG_KEY)
     ELSE /\ gmPc' = "fetch"
          /\ UNCHANGED gmResp
  /\ UNCHANGED <<gmReq, gmKey, gmApi>>
  /\ UNCHANGED <<validatorVars, uploadVars, extractVars, parsePdfVars, callVars, dashVars, histVars>>

\* Lines 29-107: await fetch rejects, or resolves with a status that is or
\* is not ok.
GmFetch ==
  /\ gmPc = "fetch"
  /\ \/ /\ gmApi' = [gmApi EXCEPT !.fetch = "network_error"]
        /\ gmPc' = "responded"
        /\ gmResp' = GmError(MSG_FETCH)
     \/ \E st \in ApiErrorStatuses :
          /\ gmApi' = [gmApi EXCEPT !.fetch = "http_error", !.status = st]
          /\ gmPc' = "responded"
          /\ gmResp' = GmError(MSG_API)
     \/ /\ gmApi' = [gmApi EXCEPT !.fetch = "ok", !.status = 200]
        /\ gmPc' = "body"
        /\ UNCHANGED gmResp
  /\ UNCHANGED <<gmReq, gmKey>>
  /\ UNCHANGED <<validatorVars, uploadVars, extractVars, parsePdfVars, callVars, dashVars, histVars>>

\* Lines 109-117: await response.json() rejects, or the structure test of
\* line 111 fails, or content is null and reading its length throws, or
\* the content is taken.
GmBody ==
  /\ gmPc = "body"
  /\ \/ /\ gmApi' = [gmApi EXCEPT !.body = "not_json"]
        /\ gmPc' = "responded"
        /\ gmResp' = GmError(MSG_API_BODY)
     \/ \E b \in {"no_choices", "empty_choices", "no_message"} :
          /\ gmApi' = [gmApi EXCEPT !.body = b]
          /\ gmPc' = "responded"
          /\ gmResp' = GmError(MSG_STRUCTURE)
     \/ \E c \in Contents :
          /\ gmApi' = [gmApi EXCEPT !.body = "valid", !.content = c]
          /\ IF c.kind = "null"
             THEN /\ gmPc' = "responded"
                  /\ gmResp' = GmError(MSG_CONTENT)
             ELSE /\ gmPc' = "content"
                  /\ UNCHANGED gmResp
  /\ UNCHANGED <<gmReq, gmKey>>
  /\ UNCHANGED <<validatorVars, uploadVars, extractVars, parsePdfVars, callVars, dashVars, histVars>>

\* A mutant of GmResult: the fallback structure lacks minutes_table.
GmResultShortFallback(content) ==
  IF content.kind = "text"
  THEN [status |-> 200, kind |-> "object", fields |-> {"minutes_html", "minutes_json"}, error |-> ""]
  ELSE [status |-> 200, kind |-> content.kind, fields |-> content.fields, error |-> ""]

\* Lines 119-159: JSON.parse(generatedContent), the structure built in the
\* catch block when it throws, and the response with either.
GmResult(content) ==
  IF content.kind = "text"
  THEN [status |-> 200, kind |-> "object", fields |-> MinutesKeys, error |-> ""]
  ELSE [status |-> 200, kind |-> content.kind, fields |-> content.fields, error |-> ""]

GmRespond ==
  /\ gmPc = "content"
  /\ gmPc' = "responded"
  /\ gmResp' = GmResult(gmApi.content)
  /\ UNCHANGED <<gmReq, gmKey, gmApi>>
  /\ UNCHANGED <<validatorVars, uploadVars, extractVars, parsePdfVars, callVars, dashVars, histVars>>

InitGenerateMinutes ==
  /\ gmPc = "received"
  /\ gmReq \in GmRequests
  /\ gmKey \in BOOLEAN
  /\ gmApi = NoGmApi
  /\ gmResp = NoGmResponse
  /\ UploadUnused
  /\ ExtractUnused
  /\ ValidatorUnused
  /\ ParsePdfUnused
  /\ CallsUnused
  /\ DashboardUnused
  /\ HistoryUnused

NextGenerateMinutes == GmReceive \/ GmFetch \/ GmBody \/ GmRespond

SpecGenerateMinutes == InitGenerateMinutes /\ [][NextGenerateMinutes]_vars

(***************************************************************************)
(* History.calculateMemberActivity (unnamed/part_002, lines 105-142).      *)
(* A date is the number of its day; a contribution_score is kept in        *)
(* half-points (score2 = 2 * contribution_score), since recencyScore * 0.5 *)
(* need not be whole.                                                      *)
(***************************************************************************)
\* The day of Date.now().
Today == 200
\* The days of the dates in the table: today, 30 days ago and 140 days ago.
MeetingDays == {Today, Today - 30, Today - 140}
MemberNames == {"ann", "bob"}
\* The number of rows fetchMeetings returns.
MaxRows == 2

\* The rows: participants is an array or null, date a day or empty.
Rows ==
  { [participants |-> ps, isArray |-> TRUE, date |-> d, created_at |-> c] :
      ps \in {<<>>, <<"ann">>, <<"bob">>, <<"ann", "bob">>, <<"bob", "ann">>},
      d \in {<<>>} \cup {<<x>> : x \in MeetingDays},
      c \in MeetingDays }
  \cup { [participants |-> <<>>, isArray |-> FALSE, date |-> <<>>, created_at |-> c] :
           c \in MeetingDays }

\* .order('created_at', { ascending: false })  (line 86)
NewestFirst(rows) ==
  \A i \in 1..(Len(rows) - 1) : rows[i].created_at >= rows[i + 1].created_at

FetchedRows ==
  { rows \in UNION { [1..n -> Rows] : n \in 0..MaxRows } : NewestFirst(rows) }

\* meeting.date || meeting.created_at  (lines 113, 121, 124)
DateOf(meeting) == IF meeting.date # <<>> THEN meeting.date[1] ELSE meeting.created_at

\* Position of the entry of `name` in stats, 0 when it has none.
StatsIndex(stats, name) ==
  FirstIn({k \in 1..Len(stats) : stats[k].name = name}, 0)

Max(a, b) == IF a >= b THEN a ELSE b

\* The recency score the name daysSinceLastActive announces: the days are
\* counted from last_active.
RecencyOfLastActive(currentDate, lastActive) == Max(0, 100 - (Today - lastActive))

\* Lines 128-129: daysSinceLastActive is counted from currentDate, the date
\* of the meeting of this iteration, whatever last_active is.
RecencyOf(currentDate, lastActive) == Max(0, 100 - (Today - currentDate))

\* Lines 109-132: one participant of one meeting.
VisitParticipant(stats, name, meeting) ==
  LET found == StatsIndex(stats, name)
      s0 == IF found = 0
            THEN Append(stats, [name |-> name, meetings_count |-> 0,
                                last_active |-> DateOf(meeting), score2 |-> 0])
            ELSE stats
      k == IF found = 0 THEN Len(s0) ELSE found
      count == s0[k].meetings_count + 1
      currentDate == DateOf(meeting)
      lastActive == IF currentDate > s0[k].last_active THEN currentDate
                    ELSE s0[k].last_active
  IN  [s0 EXCEPT ![k] = [name |-> name, meetings_count |-> count,
                         last_active |-> lastActive,
                         score2 |-> count * 20 + RecencyOf(currentDate, lastActive)]]

\* meeting.participants.forEach  (line 108)
RECURSIVE VisitParticipants(_, _, _)
VisitParticipants(stats, names, meeting) ==
  IF names = <<>> THEN stats
  ELSE VisitParticipants(VisitParticipant(stats, Head(names), meeting), Tail(names), meeting)

\* meetingsData.forEach  (lines 106-134); memberStats lists its entries in
\* the order they were created.
RECURSIVE MemberStats(_, _)
MemberStats(stats, rows) ==
  IF rows = <<>> THEN stats
  ELSE MemberStats(IF Head(rows).isArray
                   THEN VisitParticipants(stats, Head(rows).participants, Head(rows))
                   ELSE stats,
                   Tail(rows))

\* .sort((a, b) => b.contribution_score - a.contribution_score), a stable
\* sort (lines 136-137).
RECURSIVE SortByScore(_)
SortByScore(stats) ==
  IF stats = <<>> THEN <<>>
  ELSE LET rest == SortByScore(Tail(stats))
           n == Cardinality({k \in 1..Len(rest) : rest[k].score2 > Head(stats).score2})
       IN  SubSeq(rest, 1, n) \o <<Head(stats)>> \o SubSeq(rest, n + 1, Len(rest))

\* calculateMemberActivity (lines 105-140).
CalculateMemberActivity ==
  /\ histPc = "fetched"
  /\ histPc' = "done"
  /\ memberActivity' = SortByScore(MemberStats(<<>>, meetingsData))
  /\ UNCHANGED meetingsData
  /\ UNCHANGED <<validatorVars, uploadVars, extractVars, parsePdfVars, callVars, dashVars, gmVars>>

InitHistory ==
  /\ histPc = "fetched"
  /\ meetingsData \in FetchedRows
  /\ memberActivity = <<>>
  /\ UploadUnused
  /\ ExtractUnused
  /\ ValidatorUnused
  /\ ParsePdfUnused
  /\ CallsUnused
  /\ DashboardUnused
  /\ GenerateMinutesUnused

NextHistory == CalculateMemberActivity

SpecHistory == InitHistory /\ [][NextHistory]_vars

(***************************************************************************)
(* The claims.                                                             *)
(***************************************************************************)
\* The number of readable code units of text, counted position by position.
ReadableCount(text) == Cardinality({i \in 1..Len(text) : ReadableChar(text[i])})
\* readable / total > 0.70 and readable / total = 0.70, as exact fractions.
RatioExceeds70(text) == Len(text) > 0 /\ 10 * ReadableCount(text) > 7 * Len(text)
RatioIs70(text) == Len(text) > 0 /\ 10 * ReadableCount(text) = 7 * Len(text)
WhitespaceOnly(text) == \A i \in 1..Len(text) : IsSpace(text[i])
\* text neither starts nor ends with white space.
NoSurroundingSpace(text) ==
  Len(text) > 0 => ~IsSpace(text[1]) /\ ~IsSpace(text[Len(text)])
\* text is content with a white-space prefix and a white-space suffix
\* removed, and nothing else changed.
StrippedOf(text, content) ==
  \E a \in 0..Len(content), b \in 0..Len(content) :
    /\ a + b <= Len(content)
    /\ text = SubSeq(content, a + 1, Len(content) - b)
    /\ \A k \in 1..a : IsSpace(content[k])
    /\ \A k \in (Len(content) - b + 1)..Len(content) : IsSpace(content[k])
    /\ NoSurroundingSpace(text)
\* An invocation of processFile has run to its end.
ProcessDone == ~processing /\ Len(toasts) > 0

\* C1 as claimed: a result with success = true has a non-empty text that
\* isValidExtractedText accepts.  (Refuted: an empty .txt file.)
C1_SuccessImpliesValid ==
  (pc = "returned" /\ result.success)
    => (Len(result.text) > 0 /\ isValidExtractedText(result.text))

\* C1 as amended: a result with success = true has a text without leading
\* or trailing white space (it may be empty or unreadable); a text handed to
\* onFileContent by processFile comes from a result with success = true, is
\* non-empty and is accepted by isValidExtractedText.
C1_SuccessTrimmedDeliveredValid ==
  /\ result.success => NoSurroundingSpace(result.text)
  /\ \A i \in 1..Len(delivered) :
       /\ result.success
       /\ delivered[i].content = result.text
       /\ Len(delivered[i].content) > 0
       /\ RatioExceeds70(delivered[i].content)
       /\ Len(delivered[i].content) > 10

C1_Witness ==
  /\ result.success
  /\ Len(delivered) = 1
  /\ Len(cur.data.text) > Len(result.text)

C3_BlankRejected ==
  (vPc = "returned" /\ WhitespaceOnly(vText)) => ~vOut

C3_Witness ==
  /\ vPc = "returned"
  /\ WhitespaceOnly(vText)
  /\ Len(vText) > 10
  /\ ~vOut

\* C4: processFile calls onFileContent only with the text of a result that
\* has success = true and that isValidExtractedText accepts; when the
\* extraction succeeds and the Validator rejects the text, the invocation
\* ends with a destructive toast and without a call of onFileContent.
C4_PipelineGate ==
  /\ delivered # <<>> =>
       /\ result.success
       /\ isValidExtractedText(result.text)
       /\ delivered = <<[content |-> result.text, fileName |-> cur.name]>>
  /\ (ProcessDone /\ result.success /\ ~isValidExtractedText(result.text)) =>
       /\ delivered = <<>>
       /\ Len(toasts) = 1
       /\ toasts[1].variant = "destructive"
       /\ toasts[1].title = "File Processing Failed"

C4_Witness ==
  /\ ProcessDone
  /\ result.success
  /\ ~isValidExtractedText(result.text)
  /\ result.text = S_Noise
  /\ delivered = <<>>

\* C5: no fault of an underlying step escapes extractTextFromFile: the call
\* never rejects, a fault is at once turned into a returned result with
\* success = false, and the call is never stuck short of returning.
C5_NoFaultEscapes ==
  /\ pc # "rejected"
  /\ fault # <<>> => (pc = "returned" /\ ~result.success /\ Len(fault) = 1)
  /\ pc # "returned" => ENABLED NextExtract

C5_Witness ==
  /\ pc = "returned"
  /\ fault = <<"page">>
  /\ pageNum = 2
  /\ ~result.success

\* C6 as claimed: a file whose MIME type is one of the three recognised
\* types is handled by that type's extractor, whatever its name.  (Refuted
\* by the code: application/pdf named n.txt is read as plain text.)
C6_MimeTypeFirst ==
  pc # "call" =>
    /\ cur.type = MIME_TXT => trace \cap {"txt", "pdf", "docx"} = {"txt"}
    /\ cur.type = MIME_PDF => trace \cap {"txt", "pdf", "docx"} = {"pdf"}
    /\ cur.type = MIME_DOCX => trace \cap {"txt", "pdf", "docx"} = {"docx"}

\* The MIME type and the lower-cased name's suffix are both unrecognised.
OutsideFormats(file) ==
  /\ file.type \notin {MIME_TXT, MIME_PDF, MIME_DOCX}
  /\ \A ext \in {EXT_TXT, EXT_PDF, EXT_DOCX} : ~EndsWith(ToLowerCase(file.name), ext)

\* C7: for a file whose MIME type and suffix are both unrecognised the call
\* returns success = false, the unsupported-format reason and an empty
\* text, and has entered no extractor and read nothing.
C7_UnsupportedImmediate ==
  (pc # "call" /\ OutsideFormats(cur)) =>
    /\ pc = "returned"
    /\ result = [text |-> <<>>, success |-> FALSE,
                 error |-> <<MSG_UNSUPPORTED>>, pageCount |-> <<>>]
    /\ trace = {}
    /\ fault = <<>>

C7_Witness ==
  /\ pc = "returned"
  /\ OutsideFormats(cur)
  /\ cur.type = "application/octet-stream"
  /\ ~result.success

\* The file is dispatched as plain text.
PlainTextFile(file) ==
  file.type = MIME_TXT \/ EndsWith(ToLowerCase(file.name), EXT_TXT)

Blank(text) == \A i \in 1..Len(text) : IsSpace(text[i])
\* The stages attempted before position i of ppRan.
RanBefore(i) == {ppRan[j] : j \in 1..(i - 1)}

\* C9 as claimed: the blind ASCII-run scan is attempted only after the
\* text-object, stream, dictionary and keyword scans have all been attempted
\* and yielded nothing.  (Refuted by the code: it runs third.)
C9_BlindScanLast ==
  \A i \in 1..Len(ppRan) :
    ppRan[i] = "asciirun" =>
      /\ {"textobject", "stream", "dictionary", "keyword"} \subseteq RanBefore(i)
      /\ \A st \in RanBefore(i) : Blank(ppYield[st])

\* C10: a stage is attempted only if every stage attempted before it added
\* nothing but white space; at most one stage adds text, no stage runs
\* after it, and a recovered text in the response is that stage's text,
\* cleaned.
C10_OneStageYields ==
  /\ \A i \in 1..Len(ppRan) : \A st \in RanBefore(i) : Blank(ppYield[st])
  /\ Cardinality({st \in DOMAIN ppYield : ~Blank(ppYield[st])}) <= 1
  /\ (ppPc = "responded" /\ ppResp.text # <<>>) =>
       /\ ~Blank(ppYield[ppRan[Len(ppRan)]])
       /\ ppResp.text = Trim(CleanUp(ppYield[ppRan[Len(ppRan)]]))

C10_Witness ==
  /\ ppPc = "responded"
  /\ ppResp.text # <<>>
  /\ ppRan = <<"textobject", "stream", "asciirun", "dictionary">>
  /\ ~Blank(KeywordScan(ppFullText))

\* The request was decoded and every stage of the cascade was attempted and
\* added nothing but white space.
CascadeExhausted ==
  /\ ppPc = "responded"
  /\ ppRan = <<"textobject", "stream", "asciirun", "dictionary", "keyword">>
  /\ \A st \in DOMAIN ppYield : Blank(ppYield[st])

\* C11 as claimed: when the bytes decode and every stage yields nothing the
\* response is marked unsuccessful and carries the multi-cause message.
\* (Refuted by the code: the message is sent as text with success = true.)
C11_ExhaustedIsFailure ==
  CascadeExhausted => (~ppResp.success /\ ppResp.message = MSG_UNABLE)

\* text after the replace / replace / replace / trim chain of lines 112-116.
Normalised(text) == Trim(CollapseWs(ReplaceNonPrintable(CollapseWs(text))))
\* What the stage that ran last added.
LastYield == ppYield[ppRan[Len(ppRan)]]
\* The response sent when no stage found anything: the final fallback.
ExhaustedResponse ==
  [status |-> 200, success |-> TRUE, text |-> <<>>, message |-> MSG_UNABLE, error |-> ""]

\* C12: a recovered text in a response has at least MinTextLength code
\* units; when the text found, once cleaned, is shorter than that, the
\* response is the very one sent when every stage found nothing.
C12_ShortTextDiscarded ==
  (ppPc = "responded" /\ Len(ppRan) > 0) =>
    /\ ppResp.text # <<>> => Len(ppResp.text) >= MinTextLength
    /\ CascadeExhausted => ppResp = ExhaustedResponse
    /\ Len(Normalised(LastYield)) < MinTextLength => ppResp = ExhaustedResponse

C12_Witness ==
  /\ ppPc = "responded"
  /\ Len(ppRan) > 0
  /\ ~Blank(LastYield)
  /\ Len(Normalised(LastYield)) = MinTextLength - 1
  /\ ppResp = ExhaustedResponse

\* C13: a result with success = false has an empty text, in a
\* TextExtractionResult and in a response of parse-pdf alike: nothing read
\* from the file is returned with a failure.
C13_FailureCarriesNoFileText ==
  /\ (pc = "returned" /\ ~result.success) => result.text = <<>>
  /\ (ppPc = "responded" /\ ~ppResp.success) => ppResp.text = <<>>

C13_Witness ==
  /\ pc = "returned"
  /\ ~result.success
  /\ Len(fullText) > 2
  /\ result.text = <<>>

\* C14: a returned TextExtractionResult has the error field exactly when
\* success is false (the field may hold the empty message of an Error).
C14_ErrorIffFailure ==
  pc = "returned" => (Len(result.error) = 1 <=> ~result.success)

C14_Witness ==
  /\ pc = "returned"
  /\ ~result.success
  /\ result.error = <<"">>
  /\ fault = <<"decode">>

\* The content file.text() delivers holds a replacement character: the
\* bytes were not valid UTF-8.
Undecodable(file) == \E k \in 1..Len(file.data.text) : file.data.text[k] = "U+FFFD"
\* The bytes are not valid for the format the file is dispatched as.
InvalidForFormat(file) ==
  \/ Strategy(file) = "pdf" /\ ~file.data.pdf.ok
  \/ Strategy(file) = "docx" /\ ~file.data.docx.ok
  \/ Strategy(file) = "txt" /\ Undecodable(file)

RECURSIVE PagesInOrder(_)
PagesInOrder(pages) ==
  IF Len(pages) = 0 THEN <<>>
  ELSE JoinSpace(pages[1]) \o <<"\n", "\n">> \o PagesInOrder(Tail(pages))

\* C16: a returned result carries pageCount only when it is a successful
\* result of the PDF extractor; that result's pageCount is the number of
\* pages of the document, and every page 1..pageCount has been read, in
\* ascending order; a TXT or DOCX result carries none.
C16_PageCountOnlyForPdf ==
  pc = "returned" =>
    /\ result.pageCount # <<>> => (Strategy(cur) = "pdf" /\ result.success)
    /\ (Strategy(cur) = "pdf" /\ result.success) =>
         /\ result.pageCount = <<Len(cur.data.pdf.pages)>>
         /\ pageNum = Len(cur.data.pdf.pages) + 1
         /\ fullText = PagesInOrder(cur.data.pdf.pages)
         /\ result.text = CleanPdfText(PagesInOrder(cur.data.pdf.pages))
    /\ Strategy(cur) \in {"txt", "docx"} => result.pageCount = <<>>

C16_Witness ==
  /\ pc = "returned"
  /\ result.success
  /\ result.pageCount = <<2>>
  /\ cur.data.pdf.pages = << <<S_Notes>>, <<S_Hi, S_Blank>> >>

\* What a call for the file returns when it runs alone and no underlying
\* step fails.
Alone(file) ==
  CASE Strategy(file) = "txt"  -> TxtSuccess(file.data.text)
    [] Strategy(file) = "pdf"  ->
         PdfSuccess(PagesInOrder(file.data.pdf.pages), Len(file.data.pdf.pages))
    [] Strategy(file) = "docx" -> DocxSuccess(file.data.docx.value)
    [] OTHER -> [text |-> <<>>, success |-> FALSE,
                 error |-> <<MSG_UNSUPPORTED>>, pageCount |-> <<>>]

C18_ConcurrentCallsIndependent ==
  \A call \in {Locals, other} :
    call.pc = "returned" =>
      /\ call.fault = <<>> => call.result = Alone(call.cur)
      /\ call.fault # <<>> => (~call.result.success /\ call.result.text = <<>>)

C18_Witness ==
  /\ pc = "returned"
  /\ other.pc = "returned"
  /\ interleaved
  /\ cur # other.cur
  /\ Strategy(cur) = "pdf"
  /\ Strategy(other.cur) = "pdf"
  /\ result.success
  /\ other.result.success

\* The response returned no error and holds minutes_json and minutes_html.
ValidOutcome(o) ==
  /\ o.error = <<>>
  /\ HasField(o.data, "minutes_json")
  /\ HasField(o.data, "minutes_html")

\* C19 as claimed: minutes is only ever set from a response without error
\* that holds minutes_json and minutes_html, and every other response ends
\* in the "Generation Failed" toast.  (Refuted by src/pages/Dashboard.tsx,
\* which sets whatever data arrives without an error.)
C19_MinutesOnlyFromValidResponse ==
  /\ minutes # NoData => (minutes = shownFrom.data /\ ValidOutcome(shownFrom))
  /\ (dashPc = "idle" /\ invoked # NoOutcome /\ ~ValidOutcome(invoked)) =>
       (Len(dashToasts) = 1 /\ dashToasts[1].title = "Generation Failed")

\* The same statement for the Dashboard of unnamed/part_001 alone.
C19_ValidatedSourceOnly ==
  dashImpl = PART_001 => C19_MinutesOnlyFromValidResponse

\* C20 as claimed: every response with status 200 to a POST is an object
\* with minutes_html, minutes_json and minutes_table.  (Refuted by the
\* code: content that parses as JSON is returned as it is.)
C20_OkResponseHasStructure ==
  (gmPc = "responded" /\ gmReq.method = "POST" /\ gmResp.status = 200) =>
    (gmResp.kind = "object" /\ gmResp.fields = MinutesKeys)

\* The part of C20 that the code keeps: the fallback structure, built when
\* the content is no JSON, has the three keys.
C20_FallbackHasStructure ==
  (gmPc = "responded" /\ gmResp.status = 200 /\ gmApi.content.kind = "text") =>
    (gmResp.kind = "object" /\ gmResp.fields = MinutesKeys)

\* C21: a text recovered from the file and returned by parse-pdf holds only
\* printable ASCII (0x20-0x7E), no two adjacent spaces, and no space at
\* either end.
C21_RecoveredTextIsClean ==
  (ppPc = "responded" /\ ppResp.text # <<>>) =>
    /\ \A i \in 1..Len(ppResp.text) : ppResp.text[i] \in PrintableAscii
    /\ \A i \in 1..(Len(ppResp.text) - 1) :
         ~(ppResp.text[i] = " " /\ ppResp.text[i + 1] = " ")
    /\ ppResp.text[1] # " "
    /\ ppResp.text[Len(ppResp.text)] # " "

\* A text is returned whose stage found a control character, a character
\* outside ASCII, a line break and two adjacent spaces.
C21_Witness ==
  /\ ppPc = "responded"
  /\ ppResp.text # <<>>
  /\ \E i \in 1..Len(LastYield) : LastYield[i] = "NUL"
  /\ \E i \in 1..Len(LastYield) : LastYield[i] = "e-acute"
  /\ \E i \in 1..(Len(LastYield) - 1) : LastYield[i] = " " /\ LastYield[i + 1] = " "

\* t occurs in s as a contiguous part.
IsInfix(t, s) == \E i \in 0..(Len(s) - Len(t)) : SubSeq(s, i + 1, i + Len(t)) = t
\* The blind scan was attempted.
BlindScanRan == "asciirun" \in DOMAIN ppYield
\* s[b..e] is a maximal run of the characters of the class of line 69:
\* letters, white space and . , ! ? ; : ' " ( ) -
MaximalRun(s, b, e) ==
  /\ b <= e
  /\ \A k \in b..e : IsLetter(s[k]) \/ IsSpace(s[k]) \/ s[k] \in Punct
  /\ b = 1 \/ ~(IsLetter(s[b - 1]) \/ IsSpace(s[b - 1]) \/ s[b - 1] \in Punct)
  /\ e = Len(s) \/ ~(IsLetter(s[e + 1]) \/ IsSpace(s[e + 1]) \/ s[e + 1] \in Punct)
\* s[b..e] is a run of printable ASCII.
PrintableRun(s, b, e) == \A k \in b..e : s[k] \in PrintableAscii

\* C22 as claimed: every run of at least MinRunLength printable ASCII
\* characters of the decoded bytes is part of what the blind scan yields.
\* (Refuted by the code: a digit, a slash or any printable character outside
\* the class of line 69 ends a run.)
C22_PrintableRunsAreFragments ==
  BlindScanRan =>
    \A b \in 1..(Len(ppFullText) - MinRunLength + 1) :
      PrintableRun(ppFullText, b, b + MinRunLength - 1) =>
        IsInfix(Trim(CollapseWs(SubSeq(ppFullText, b, b + MinRunLength - 1))),
                ppYield["asciirun"])

\* C22 as the code has it: every maximal run of at least MinRunLength
\* letters, white space and the punctuation of line 69 is part of the
\* yield, with its white space collapsed; the yield holds those characters
\* only; and when no run is that long the scan yields nothing.
C22_ClassRunsAreFragments ==
  BlindScanRan =>
    /\ \A b \in 1..Len(ppFullText), e \in 1..Len(ppFullText) :
         (MaximalRun(ppFullText, b, e) /\ e - b + 1 >= MinRunLength) =>
           IsInfix(Trim(CollapseWs(SubSeq(ppFullText, b, e))), ppYield["asciirun"])
    /\ \A i \in 1..Len(ppYield["asciirun"]) :
         \/ IsLetter(ppYield["asciirun"][i])
         \/ ppYield["asciirun"][i] \in Punct \cup {" "}
    /\ (\A b \in 1..Len(ppFullText), e \in 1..Len(ppFullText) :
          MaximalRun(ppFullText, b, e) => e - b + 1 < MinRunLength)
       => ppYield["asciirun"] = <<>>

\* The scan yields a fragment from bytes that also hold a shorter run with
\* letters and a run of MinRunLength printable characters with a digit.
C22_Witness ==
  /\ BlindScanRan
  /\ ppYield["asciirun"] # <<>>
  /\ \E b \in 1..Len(ppFullText), e \in 1..Len(ppFullText) :
       /\ MaximalRun(ppFullText, b, e)
       /\ e - b + 1 < MinRunLength
       /\ HasLetter(SubSeq(ppFullText, b, e))
  /\ \E b \in 1..(Len(ppFullText) - MinRunLength + 1) :
       /\ PrintableRun(ppFullText, b, b + MinRunLength - 1)
       /\ \E k \in b..(b + MinRunLength - 1) : ppFullText[k] \in Digit

\* An invocation of processFile has run to its end: cur is its file and
\* result what extractTextFromFile returned to it.
ProcessFileEnded == pc = "idle" /\ ~processing /\ cur # NoFile
\* Outcome (a): onFileContent called once with the text, one success toast.
OutcomeDelivered ==
  /\ delivered = <<[content |-> result.text, fileName |-> cur.name]>>
  /\ Len(toasts) = 1
  /\ toasts[1].title = "File Processed Successfully!"
  /\ toasts[1].variant = "default"
\* Outcome (b): onFileContent not called, one destructive toast.
OutcomeFailed(description) ==
  /\ delivered = <<>>
  /\ Len(toasts) = 1
  /\ toasts[1].title = "File Processing Failed"
  /\ toasts[1].variant = "destructive"
  /\ toasts[1].description = description

\* C23 as claimed: processFile ends with onFileContent called once and a
\* success toast, or with no call and one destructive toast whose
\* description is the error of the extractor's result, or MSG_CORRUPTED when
\* isValidExtractedText rejected the text.  (Refuted by the code: an empty
\* error is replaced by MSG_EXTRACT_FAILED.)
C23_TwoOutcomes ==
  ProcessFileEnded =>
    \/ OutcomeDelivered
    \/ ~result.success /\ OutcomeFailed(result.error[1])
    \/ result.success /\ OutcomeFailed(MSG_CORRUPTED)

\* C23 as the code has it: the description of the destructive toast is the
\* error of the result when it is not empty and MSG_EXTRACT_FAILED when it
\* is; the outcome is (a) exactly when the result is a success with a text
\* isValidExtractedText accepts; and nothing is delivered or shown before
\* the invocation ends.
C23_TwoOutcomesWithFallback ==
  /\ ProcessFileEnded =>
       /\ (result.success /\ isValidExtractedText(result.text)) => OutcomeDelivered
       /\ (result.success /\ ~isValidExtractedText(result.text)) =>
            OutcomeFailed(MSG_CORRUPTED)
       /\ (~result.success /\ result.error[1] # "") => OutcomeFailed(result.error[1])
       /\ (~result.success /\ result.error[1] = "") => OutcomeFailed(MSG_EXTRACT_FAILED)
  /\ processing => (delivered = <<>> /\ toasts = <<>>)

\* An invocation has ended with the destructive toast carrying the reason
\* the extractor gave.
C23_Witness ==
  /\ ProcessFileEnded
  /\ ~result.success
  /\ result.error = <<"NotReadableError">>
  /\ OutcomeFailed("NotReadableError")

\* C24: when extractTextFromPDF has returned after a step of it failed
\* (reading the bytes, loading the document, getting or decoding a page),
\* the result has success = false, an empty text and no pageCount, whatever
\* fullText had collected.
C24_NoPartialPdfResult ==
  (pc = "returned" /\ "pdf" \in trace /\ fault # <<>>) =>
    /\ ~result.success
    /\ result.text = <<>>
    /\ result.pageCount = <<>>

\* The second page failed after the first had been collected.
C24_Witness ==
  /\ pc = "returned"
  /\ "pdf" \in trace
  /\ fault = <<"page">>
  /\ pageNum = 2
  /\ \E i \in 1..Len(fullText) : IsLetter(fullText[i])
  /\ result.text = <<>>

\* C25: the drop zone lets a file into the selected-files list exactly when
\* extractTextFromFile has a strategy for it (and it is within the size
\* limit): every selected file and every file handed to processFile has a
\* strategy, and no result carries the unsupported-format reason.
C25_SelectedFilesHaveStrategy ==
  /\ \A i \in 1..Len(files) : Strategy(files[i]) # "none"
  /\ \A f \in DropFiles :
       (DropErrors(f) = <<>>) <=> (Strategy(f) # "none" /\ f.size <= DropzoneMaxSize)
  /\ cur # NoFile =>
       /\ Strategy(cur) # "none"
       /\ result.error # <<MSG_UNSUPPORTED>>

\* A file recognised by its upper-case name only has entered an extractor,
\* after a file of an unrecognised type was turned away.
C25_Witness ==
  /\ cur.type = ""
  /\ "txt" \in trace
  /\ \E i \in 1..Len(dropToasts) :
       dropToasts[i].description = "Please upload a TXT, PDF, or DOCX file"

\* What a step that ends an invocation of processFile leaves behind: an
\* empty list, and nothing delivered but from the first file.
EndsProcessing ==
  (processing /\ ~processing') =>
    /\ files' = <<>>
    /\ Len(toasts') = 1
    /\ \A i \in 1..Len(delivered') : delivered'[i].fileName = files[1].name
\* What a step taken with an empty list and nothing running leaves alone.
IdleOnEmptyList ==
  (files = <<>> /\ ~processing) =>
    (~processing' /\ pc' = pc /\ toasts' = toasts /\ delivered' = delivered /\ cur' = cur)

\* C26: with an empty list nothing is processed; while processFile runs its
\* file is the first of the list; the step that ends it empties the list,
\* on success and on failure, and delivers nothing of any other file.
C26_OnlyFirstFileProcessed ==
  /\ [](processing => (Len(files) >= 1 /\ cur = files[1]))
  /\ [][EndsProcessing /\ IdleOnEmptyList]_vars

\* processFile is about to end on the first of two different files.
C26_Witness ==
  /\ processing
  /\ pc = "returned"
  /\ Len(files) = 2
  /\ files[2] # files[1]
  /\ Strategy(files[2]) # Strategy(files[1])

\* C27: processing is set when processFile starts and loading when
\* generateMinutes starts its request, and each flag that is set is
\* eventually cleared, whichever way the awaited operation settles.
C27_BusyFlagsReset ==
  /\ [][(pc = "idle" /\ pc' # "idle") => processing']_vars
  /\ [][(dashPc = "idle" /\ dashPc' # "idle") => loading']_vars
  /\ processing ~> ~processing
  /\ loading ~> ~loading
  /\ [](pc = "idle" => ~processing)
  /\ [](dashPc = "idle" => ~loading)

\* processFile has ended on the Validator's rejection with the flag clear.
C27_Witness ==
  /\ ProcessFileEnded
  /\ result.success
  /\ ~isValidExtractedText(result.text)
  /\ ~processing
  /\ OutcomeFailed(MSG_CORRUPTED)

\* The step is the return of a call of generateMinutes made with a
\* transcript that trim() leaves empty.
BlankCall == dashPc = "idle" /\ Len(Trim(transcript)) = 0 /\ transcript' = transcript
\* The step settles the invocation with an error or with a response that
\* lacks minutes_json or minutes_html.
SettlesWithoutSuccess == dashPc = "invoke" /\ ~ValidOutcome(invoked')

SavedToastShown ==
  /\ Len(dashToasts) = 1
  /\ dashToasts[1].description =
       "Your meeting notes have been successfully generated and saved."

\* C29 as claimed: the toast saying the notes were saved is shown only when
\* the insert has put the displayed minutes into the meetings table.
\* (Refuted by the code: saveMeetingToDatabase swallows a failed insert.)
C29_SavedToastOnlyAfterInsert ==
  SavedToastShown =>
    /\ Len(meetings) > 0
    /\ meetings[Len(meetings)].minutes = minutes

\* What the code does keep: the toast is shown only after a valid response
\* was set as the minutes, and only by the Dashboard of unnamed/part_001.
C29_SavedToastOnlyAfterValidResponse ==
  SavedToastShown =>
    /\ dashImpl = PART_001
    /\ ValidOutcome(invoked)
    /\ minutes = invoked.data

\* The rows that list the member.
Listing(name) ==
  { i \in 1..Len(meetingsData) :
      /\ meetingsData[i].isArray
      /\ \E j \in 1..Len(meetingsData[i].participants) :
           meetingsData[i].participants[j] = name }
\* The date of the member's most recent meeting.
MostRecent(name) == Greatest({DateOf(meetingsData[i]) : i \in Listing(name)})
\* The rows in the opposite order.
Reversed(rows) == [i \in 1..Len(rows) |-> rows[Len(rows) + 1 - i]]
\* The score calculateMemberActivity gives the member for the rows.
ScoreIn(rows, name) ==
  LET stats == MemberStats(<<>>, rows) IN stats[StatsIndex(stats, name)].score2

\* C30 as claimed: every member's contribution_score is 10 times the number
\* of meetings listing the member plus half of max(0, 100 - days since
\* last_active), last_active being the date of the member's most recent
\* meeting, and is the same when the rows are iterated in the opposite
\* order.  (Refuted by the code: the days are counted from the meeting
\* iterated last.)
C30_ScoreFromCountAndLastActive ==
  histPc = "done" =>
    \A k \in 1..Len(memberActivity) :
      LET m == memberActivity[k] IN
        /\ m.last_active = MostRecent(m.name)
        /\ m.score2 = 20 * Cardinality(Listing(m.name))
                      + Max(0, 100 - (Today - m.last_active))
        /\ m.score2 = ScoreIn(Reversed(meetingsData), m.name)

\* What the code computes: the count and last_active are as claimed, and
\* the recency part of the score is that of the last row listing the
\* member, in the order of iteration.
C30_ScoreFromCountAndLastRow ==
  histPc = "done" =>
    \A k \in 1..Len(memberActivity) :
      LET m == memberActivity[k] IN
        /\ m.meetings_count = Cardinality(Listing(m.name))
        /\ m.last_active = MostRecent(m.name)
        /\ m.score2 = 20 * m.meetings_count
                      + Max(0, 100 - (Today - DateOf(meetingsData[Greatest(Listing(m.name))])))

====
